---- MODULE Spec2Model ----
(***************************************************************************)
(* Verification model of cloud-storage-rs: the authenticated request      *)
(* envelope (Client::get_headers, Client::get/post/put/delete), the        *)
(* response envelope decoder (GoogleResponse) and the resource clients     *)
(* BucketAccessControl, ObjectAccessControl, DefaultObjectAccessControl    *)
(* and HmacKey.                                                             *)
(*                                                                         *)
(* One call is followed through its await points: the entry of the         *)
(* operation, the acquisition of the headers, the sending of the request,  *)
(* and the reading and decoding of the response body.  The remote service  *)
(* is the environment: it answers a request with any status and any body   *)
(* of the bounded set Bodies, or the transport fails.                      *)
(***************************************************************************)
EXTENDS Integers, Sequences, FiniteSets, TLC

(***************************************************************************)
(* Bounds                                                                  *)
(***************************************************************************)
MaxItems == 2

(***************************************************************************)
(* Identifiers and enumerated values                                       *)
(***************************************************************************)
Absent == "<absent>"
NA == "-"

BucketNames == {"b1", "b2"}
ObjectNames == {"o1"}
AccessIds == {"k1"}
Entities == {"allUsers", "allAuthenticatedUsers"}
Tokens == {"t1", "t2"}

BASE_URL == "https://www.googleapis.com/storage/v1"

(***************************************************************************)
(* JSON bodies.  A body is the empty byte string, text that is not JSON,   *)
(* the JSON value null, or a JSON object.  Of an object the model keeps    *)
(* the "error" member, the "items" member and the members of a resource    *)
(* record; any other member (such as "kind") is ignored by every decoder.  *)
(***************************************************************************)
NoRec == [shape |-> "none", bucket |-> Absent, entity |-> NA, role |-> NA,
          accessId |-> NA, state |-> NA, secret |-> NA, name |-> NA]

\* what a response holds for the bucket member of a record
BucketJson == {Absent, "", "b2"}

AclJson == [shape : {"acl"}, bucket : BucketJson,
            entity : {"allUsers"}, role : {"READER"},
            accessId : {NA}, state : {NA}, secret : {NA}, name : {NA}]

HmacMetaJson == [shape : {"hmacMeta"}, bucket : {Absent}, entity : {NA}, role : {NA},
                 accessId : AccessIds, state : {"ACTIVE", "INACTIVE"}, secret : {NA},
                 name : {NA}]

HmacKeyJson == [shape : {"hmacKey"}, bucket : {Absent}, entity : {NA}, role : {NA},
                accessId : AccessIds, state : {"ACTIVE"}, secret : {"s3cr3t"},
                name : {NA}]

ResJson == {NoRec} \cup AclJson \cup HmacMetaJson \cup HmacKeyJson

\* the members of a list: records of a bucket's acl and records of HMAC metadata
ItemJson == {r \in AclJson : r.bucket = "b2"} \cup {r \in HmacMetaJson : r.state = "ACTIVE"}

SeqsUpTo(S, n) == UNION {[1..k -> S] : k \in 0..n}

NoItems == [present |-> FALSE, list |-> <<>>]
ItemsJson == {NoItems} \cup [present : {TRUE}, list : SeqsUpTo(ItemJson, MaxItems)]

NoDetail == [code |-> 0, message |-> NA, errors |-> <<>>]
ErrorDetails == {[code |-> 404, message |-> "Not Found", errors |-> <<>>],
                 [code |-> 409, message |-> "Conflict", errors |-> <<"conflict">>]}

NoError == [present |-> FALSE, valid |-> FALSE, detail |-> NoDetail]
\* an "error" member that does not match the error schema
BadError == [present |-> TRUE, valid |-> FALSE, detail |-> NoDetail]
ErrorJson == {NoError, BadError} \cup [present : {TRUE}, valid : {TRUE}, detail : ErrorDetails]

NonObject(j) == [json |-> j, error |-> NoError, items |-> NoItems, res |-> NoRec]
EmptyBody == NonObject("empty")
MalformedBody == NonObject("malformed")
\* a body whose bytes cannot be read to the end (the connection breaks)
UnreadableBody == NonObject("unreadable")
NullBody == NonObject("null")

Bodies == {EmptyBody, MalformedBody, UnreadableBody, NullBody}
          \cup [json : {"object"}, error : ErrorJson, items : ItemsJson, res : ResJson]

Statuses == {200, 404}

(***************************************************************************)
(* Decoders of the success shapes (serde derive on the structs).  A        *)
(* decoder returns [ok, value]; the members of a record that are not kept  *)
(* in the model (kind, id, selfLink, object, etag, ...) are present        *)
(* whenever the record has the shape of the resource.                      *)
(***************************************************************************)
NoValue == [t |-> "none", one |-> NoRec, many |-> <<>>]
One(t, r) == [t |-> t, one |-> r, many |-> <<>>]
Many(l) == [t |-> "list", one |-> NoRec, many |-> l]
Unit == [t |-> "unit", one |-> NoRec, many |-> <<>>]

Decoded(v) == [ok |-> TRUE, value |-> v]
NotDecoded == [ok |-> FALSE, value |-> NoValue]

\* struct BucketAccessControl: bucket, entity and role are required members
BucketAccessControlOfJson(r) ==
    IF r.shape = "acl" /\ r.bucket # Absent THEN Decoded(One("acl", r)) ELSE NotDecoded

\* struct ObjectAccessControl: bucket, entity and role are required members
ObjectAccessControlOfJson(r) ==
    IF r.shape = "acl" /\ r.bucket # Absent THEN Decoded(One("acl", r)) ELSE NotDecoded

\* struct DefaultObjectAccessControl: #[serde(default)] on bucket gives the
\* empty string when the member is absent
DefaultObjectAccessControlOfJson(r) ==
    IF r.shape = "acl"
    THEN Decoded(One("acl", [r EXCEPT !.bucket = IF r.bucket = Absent THEN "" ELSE r.bucket]))
    ELSE NotDecoded

\* struct HmacMeta: access_id and state are required members
HmacMetaOfJson(r) ==
    IF r.shape = "hmacMeta" THEN Decoded(One("hmacMeta", r)) ELSE NotDecoded

\* struct HmacKey: metadata (an HmacMeta) and secret are required members
HmacKeyOfJson(r) ==
    IF r.shape = "hmacKey" THEN Decoded(One("hmacKey", r)) ELSE NotDecoded

\* struct Bucket: name is a required member
BucketOfJson(r) ==
    IF r.shape = "bucket" THEN Decoded(One("bucket", r)) ELSE NotDecoded

OfJson(T, r) ==
    CASE T = "Bucket" -> BucketOfJson(r)
      [] T = "BucketAccessControl" -> BucketAccessControlOfJson(r)
      [] T = "ObjectAccessControl" -> ObjectAccessControlOfJson(r)
      [] T = "DefaultObjectAccessControl" -> DefaultObjectAccessControlOfJson(r)
      [] T = "HmacMeta" -> HmacMetaOfJson(r)
      [] T = "HmacKey" -> HmacKeyOfJson(r)

ItemsOfJson(T, l) ==
    IF \A i \in 1..Len(l) : OfJson(T, l[i]).ok
    THEN Decoded(Many([i \in 1..Len(l) |-> OfJson(T, l[i]).value.one]))
    ELSE NotDecoded

\* resources::common::ListResponse<T>: a missing "items" member is the empty list
ListResponse(T, body) ==
    IF body.json # "object" THEN NotDecoded
    ELSE IF ~body.items.present THEN Decoded(Many(<<>>))
    ELSE ItemsOfJson(T, body.items.list)

\* hmac_key::ListResponse: items is a required member
HmacListResponse(body) ==
    IF body.json # "object" \/ ~body.items.present THEN NotDecoded
    ELSE ItemsOfJson("HmacMeta", body.items.list)

\* the unit type () decodes from the JSON value null only
UnitOfJson(body) ==
    IF body.json = "null" THEN Decoded(Unit) ELSE NotDecoded

\* the success shape T of GoogleResponse<T>
SuccessOfJson(T, body) ==
    CASE T = "Unit" -> UnitOfJson(body)
      [] T = "HmacList" -> HmacListResponse(body)
      [] T \in {"List<BucketAccessControl>", "List<ObjectAccessControl>",
                "List<DefaultObjectAccessControl>"} ->
            ListResponse(CASE T = "List<BucketAccessControl>" -> "BucketAccessControl"
                           [] T = "List<ObjectAccessControl>" -> "ObjectAccessControl"
                           [] OTHER -> "DefaultObjectAccessControl", body)
      [] OTHER -> IF body.json = "object" THEN OfJson(T, body.res) ELSE NotDecoded

(***************************************************************************)
(* The response envelope.  reqwest's Response::json reads the body and     *)
(* parses it; a body that is not JSON, or that matches no variant of the   *)
(* envelope, is a failure of json() and no envelope exists.                *)
(***************************************************************************)
IsJson(body) == body.json \in {"null", "object"}

HasErrorObject(body) ==
    body.json = "object" /\ body.error.present /\ body.error.valid

Success(v) == [tag |-> "Success", value |-> v, detail |-> NoDetail]
Error(d) == [tag |-> "Error", value |-> NoValue, detail |-> d]
NoEnvelope == [tag |-> "None", value |-> NoValue, detail |-> NoDetail]

\* GoogleResponse<T>: the error branch is tried first, then the success shape
GoogleResponse(T, body) ==
    IF ~IsJson(body) THEN NoEnvelope
    ELSE IF HasErrorObject(body) THEN Error(body.error.detail)
    ELSE IF SuccessOfJson(T, body).ok THEN Success(SuccessOfJson(T, body).value)
    ELSE NoEnvelope

\* GoogleErrorResponse decoded on its own (BucketAccessControl::delete)
GoogleErrorResponse(body) ==
    IF IsJson(body) /\ HasErrorObject(body) THEN Error(body.error.detail) ELSE NoEnvelope

(***************************************************************************)
(* Results: crate::Result<T> with the variants of crate::Error             *)
(***************************************************************************)
ErrorKinds == {"Google", "Decode", "Transport", "Auth", "InvalidHeader",
               "MissingServiceAccount", "Configuration", "Other"}

Ok(v) == [tag |-> "Ok", value |-> v, kind |-> NA, detail |-> NoDetail]
Err(k) == [tag |-> "Err", value |-> NoValue, kind |-> k, detail |-> NoDetail]
Google(d) == [tag |-> "Err", value |-> NoValue, kind |-> "Google", detail |-> d]
Pending == [tag |-> "Pending", value |-> NoValue, kind |-> NA, detail |-> NoDetail]

\* GoogleResponse::into_result
into_result(env) ==
    IF env.tag = "Success" THEN Ok(env.value) ELSE Google(env.detail)

(***************************************************************************)
(* State                                                                   *)
(***************************************************************************)
VARIABLES
    client,     \* the Client: project_id and service_account
    pc,         \* position of the call: idle, headers, send, done
    call,       \* the operation called and its arguments
    headers,    \* what get_headers returned to this call
    request,    \* the RequestBuilder made by Client::get/post/put/delete
    sent,       \* the requests this call has sent, in order
    response,   \* the response received: status and body
    envelope,   \* the GoogleResponse decoded from the body, if any
    failed,     \* the steps of this call that failed
    result      \* the value the call returns

cvars == <<client, pc, call, headers, request, sent, response, envelope, failed, result>>

\* the state of the request-path round trip (see the request path below)
VARIABLES
    u_pc,       \* position of the round trip: off, create, read, end
    u_stage,    \* position within the operation: call, url, wire
    u_slot,     \* the place of the identifier under test: bucket or object
    u_id,       \* the identifier under test
    u_url,      \* the text made by format!
    u_wire,     \* the path and query the service receives
    u_seen,     \* what the service made of the path: routed, bucket, object
    u_store,    \* the entries the service holds: pairs of bucket and object
    u_found     \* whether the read found an entry

uvars == <<u_pc, u_stage, u_slot, u_id, u_url, u_wire, u_seen, u_store, u_found>>

\* the state of concurrent calls on one shared Client (see the shared Client below)
VARIABLES
    t_client,   \* the shared Client: project_id and service_account
    t_token,    \* Client.token: the credential it caches, value and expiry
    t_issued,   \* how many times the identity service was asked for a token
    t_fetched,  \* the value of the last token fetch since the cache last expired
    t_pc,       \* per task: off, idle, headers, send, wait, recv, done
    t_call,     \* per task: the operation called and its arguments
    t_headers,  \* per task: what get_headers returned
    t_request,  \* per task: the RequestBuilder of the call
    t_wire,     \* per task: what the service answered to the request of the task
    t_response, \* per task: the response the call received
    t_result    \* per task: the value the call returns

tvars == <<t_client, t_token, t_issued, t_fetched, t_pc, t_call, t_headers, t_request,
           t_wire, t_response, t_result>>

\* the state of Client::new (see Client::new below)
VARIABLES
    n_env,      \* the environment of the process
    n_pc,       \* position in Client::new: off, token, project, account, done, panicked
    n_token,    \* whether the Token was built
    n_project,  \* the project id resolved
    n_from,     \* what ServiceAccount::from_env did
    n_account,  \* the service account read
    n_result,   \* what Client::new returns
    n_client    \* the Client made

nvars == <<n_env, n_pc, n_token, n_project, n_from, n_account, n_result, n_client>>

\* the state of the round trips to the service (see the service below)
VARIABLES
    s_res,      \* the resource the calls are about
    s_store,    \* the entries the service holds: role, state or existence by id
    s_pc,       \* idle, sent, answered, done
    s_call,     \* the operation called and its arguments
    s_request,  \* the request of the call
    s_before,   \* the entries the service held when the request was sent
    s_response, \* the answer of the service
    s_result,   \* the value the call returns
    s_last,     \* by id: the last create or update that returned Ok, if no
                \* write on the entry was called since
    s_lastUpd,  \* by id: the state that the last update the service applied
                \* was called with
    s_held      \* the record the caller holds: the last one an operation returned

svars == <<s_res, s_store, s_pc, s_call, s_request, s_before, s_response, s_result,
           s_last, s_lastUpd, s_held>>

\* the state of the conversion of an HmacState
VARIABLES
    h_pc,       \* state (to serialize), wire (to parse), serialized, parsed
    h_state,    \* the HmacState that is serialized
    h_wire,     \* the string on the wire
    h_parsed    \* what parsing the string gives

hvars == <<h_pc, h_state, h_wire, h_parsed>>

\* the state of the formatting of two values with {:?}
VARIABLES
    d_kind,     \* the type of the values: Client or ServiceAccount
    d_a,        \* the first value
    d_b,        \* the second value
    d_text      \* the Debug text of each, once formatted

dvars == <<d_kind, d_a, d_b, d_text>>

\* the state of the test helpers and of the buckets of the service
VARIABLES
    b_name,     \* the name of the test bucket
    b_store,    \* the buckets the service holds
    b_made,     \* how many buckets of that name the service has created
    b_helper,   \* by task: the helper it calls
    b_pc,       \* by task: position in the helper
    b_request,  \* by task: the request in flight
    b_response, \* by task: the answer in flight
    b_result    \* by task: what the last operation returned

bvars == <<b_name, b_store, b_made, b_helper, b_pc, b_request, b_response, b_result>>

yvars == <<hvars, dvars, bvars>>

\* the state of the other parts of the model
xvars == <<tvars, nvars, svars, yvars>>

vars == <<cvars, uvars, xvars>>

\* the tasks that share one Client
Tasks == {"task1", "task2"}


Resources == {"BucketAccessControl", "ObjectAccessControl",
              "DefaultObjectAccessControl", "HmacKey"}
Kinds == {"create", "list", "read", "update", "delete"}

NoCall == [res |-> NA, kind |-> NA, bucket |-> NA, object |-> NA, entity |-> NA,
           role |-> NA, accessId |-> NA, state |-> NA]
NoRequest == [via |-> NA, method |-> NA, url |-> NA, bucket |-> NA, object |-> NA, entity |-> NA,
              project |-> NA, accessId |-> NA, query |-> NA, auth |-> Absent,
              json |-> NoRec]
NoResponse == [status |-> 0, body |-> EmptyBody]
NoHeaders == [ok |-> FALSE, auth |-> Absent, kind |-> NA]

\* the role a caller asks for in create and update
CallRoles == {"READER"}

\* the calls a caller can make: resource, operation and arguments
AclCalls ==
    {c \in [res : Resources \ {"HmacKey"}, kind : Kinds, bucket : BucketNames,
            object : ObjectNames \cup {NA}, entity : Entities \cup {NA},
            role : CallRoles \cup {NA}, accessId : {NA}, state : {NA}] :
        /\ (c.object # NA) <=> (c.res = "ObjectAccessControl")
        /\ (c.entity # NA) <=> (c.kind # "list")
        /\ (c.kind = "create") => (c.entity = "allUsers")
        /\ (c.role # NA) <=> (c.kind \in {"create", "update"})}

HmacCalls ==
    {c \in [res : {"HmacKey"}, kind : Kinds, bucket : {NA}, object : {NA},
            entity : {NA}, role : {NA}, accessId : AccessIds \cup {NA},
            state : {"ACTIVE", "INACTIVE", NA}] :
        /\ (c.accessId # NA) <=> (c.kind \in {"read", "update", "delete"})
        /\ (c.state # NA) <=> (c.kind = "update")}

Calls == AclCalls \cup HmacCalls

ServiceAccounts == {[client_email |-> "sa@example.iam"]}
NoServiceAccount == [client_email |-> Absent]
Clients == [project_id : {"p1"}, service_account : ServiceAccounts \cup {NoServiceAccount}]

(***************************************************************************)
(* The request of an operation: verb, url (format! of the template with    *)
(* the identifiers) and JSON body                                          *)
(***************************************************************************)
Method(c) ==
    CASE c.kind = "create" -> "POST"
      [] c.kind \in {"list", "read"} -> "GET"
      [] c.kind = "update" -> "PUT"
      [] c.kind = "delete" -> "DELETE"

UrlTemplate(c) ==
    CASE c.res = "BucketAccessControl" ->
            IF c.kind \in {"create", "list"} THEN "/b/{}/acl" ELSE "/b/{}/acl/{}"
      [] c.res = "ObjectAccessControl" ->
            IF c.kind \in {"create", "list"} THEN "/b/{}/o/{}/acl" ELSE "/b/{}/o/{}/acl/{}"
      [] c.res = "DefaultObjectAccessControl" ->
            IF c.kind \in {"create", "list"} THEN "/b/{}/defaultObjectAcl"
            ELSE "/b/{}/defaultObjectAcl/{}"
      [] c.res = "HmacKey" ->
            IF c.kind \in {"create", "list"} THEN "/projects/{}/hmacKeys"
            ELSE "/projects/{}/hmacKeys/{}"
      [] c.res = "Bucket" ->
            IF c.kind \in {"create", "list"} THEN "/b" ELSE "/b/{}"

\* the body given to RequestBuilder::json
JsonOf(c) ==
    CASE c.res = "HmacKey" /\ c.kind = "update" ->
            [NoRec EXCEPT !.shape = "updateMeta", !.state = c.state]
      [] c.res = "Bucket" /\ c.kind = "create" ->
            [NoRec EXCEPT !.shape = "newBucket", !.name = c.bucket]
      [] c.res = "Bucket" -> NoRec
      [] c.res # "HmacKey" /\ c.kind = "create" ->
            [NoRec EXCEPT !.shape = "newAcl", !.entity = c.entity, !.role = c.role]
      [] c.res # "HmacKey" /\ c.kind = "update" ->
            [NoRec EXCEPT !.shape = "acl", !.bucket = c.bucket, !.entity = c.entity,
                          !.role = c.role]
      [] OTHER -> NoRec

\* mutant of RequestOf: the builder is made without .headers(...)
RequestOfNoHeaders(cl, c, auth) ==
    [via |-> "Client", method |-> Method(c), url |-> UrlTemplate(c), bucket |-> c.bucket,
     object |-> c.object, entity |-> c.entity,
     project |-> IF c.res = "HmacKey" THEN cl.project_id ELSE NA,
     accessId |-> c.accessId,
     query |-> IF c.res = "HmacKey" /\ c.kind = "create"
               THEN cl.service_account.client_email ELSE NA,
     auth |-> Absent, json |-> JsonOf(c)]

\* mutant of RequestOf: the url names the first entity whatever the record holds
RequestOfFirstEntity(cl, c, auth) ==
    [via |-> "Client", method |-> Method(c), url |-> UrlTemplate(c), bucket |-> c.bucket,
     object |-> c.object, entity |-> IF c.entity = NA THEN NA ELSE "allUsers",
     project |-> IF c.res = "HmacKey" THEN cl.project_id ELSE NA,
     accessId |-> c.accessId,
     query |-> IF c.res = "HmacKey" /\ c.kind = "create"
               THEN cl.service_account.client_email ELSE NA,
     auth |-> auth, json |-> JsonOf(c)]

\* Client::get / post / put / delete: self.client.get(url).headers(...)
RequestOf(cl, c, auth) ==
    [via |-> "Client", method |-> Method(c), url |-> UrlTemplate(c), bucket |-> c.bucket,
     object |-> c.object, entity |-> c.entity,
     project |-> IF c.res = "HmacKey" THEN cl.project_id ELSE NA,
     accessId |-> c.accessId,
     query |-> IF c.res = "HmacKey" /\ c.kind = "create"
               THEN cl.service_account.client_email ELSE NA,
     auth |-> auth, json |-> JsonOf(c)]

\* Client::get_headers: the token of the credential provider, parsed into
\* the Authorization header; either step can fail
TokenOutcomes == {"ok", "auth", "invalid"}

get_headers(outcome, t) ==
    CASE outcome = "ok" -> [ok |-> TRUE, auth |-> t, kind |-> NA]
      [] outcome = "auth" -> [ok |-> FALSE, auth |-> Absent, kind |-> "Auth"]
      [] outcome = "invalid" -> [ok |-> FALSE, auth |-> Absent, kind |-> "InvalidHeader"]

\* the free function crate::get_headers that the BucketAccessControl
\* operations call: the same two steps
crate_get_headers(outcome, t) == get_headers(outcome, t)

\* the BucketAccessControl operations build their request on the static
\* crate::CLIENT: crate::CLIENT.post(&url).headers(crate::get_headers().await?)
StaticRequestOf(c, auth) ==
    [RequestOf([project_id |-> NA, service_account |-> NoServiceAccount], c, auth)
        EXCEPT !.via = "crate::CLIENT"]

\* the success shape an operation asks GoogleResponse for
ShapeOf(c) ==
    CASE c.kind = "delete" -> "Unit"
      [] c.res = "HmacKey" /\ c.kind = "list" -> "HmacList"
      [] c.res = "HmacKey" /\ c.kind = "create" -> "HmacKey"
      [] c.res = "HmacKey" -> "HmacMeta"
      [] c.kind = "list" ->
            (CASE c.res = "BucketAccessControl" -> "List<BucketAccessControl>"
               [] c.res = "ObjectAccessControl" -> "List<ObjectAccessControl>"
               [] OTHER -> "List<DefaultObjectAccessControl>")
      [] OTHER -> c.res

(***************************************************************************)
(* The end of each operation: what it makes of the response.  An outcome   *)
(* is the envelope decoded (if any), the steps that failed and the result  *)
(* returned.                                                               *)
(***************************************************************************)
Outcome(env, f, r) == [envelope |-> env, failed |-> f, result |-> r]

\* the error of Response::json: the body could not be read, or not decoded
JsonError(body) == IF body.json = "unreadable" THEN "Transport" ELSE "Decode"

\* .json::<GoogleResponse<T>>().await?.into_result()
JsonIntoResult(T, body) ==
    LET env == GoogleResponse(T, body) IN
    IF env.tag = "None" THEN Outcome(NoEnvelope, {"body"}, Err(JsonError(body)))
    ELSE Outcome(env, {}, into_result(env))

\* .map(|mut s| { s.bucket = bucket.to_string(); s })
WithBucket(o, bucket) ==
    IF o.result.tag = "Ok"
    THEN [o EXCEPT !.result.value.one.bucket = bucket]
    ELSE o

\* mutant of WithBucketEach: only the first item gets the caller's bucket
WithBucketFirst(o, bucket) ==
    IF o.result.tag = "Ok"
    THEN [o EXCEPT !.result.value.many =
            [i \in 1..Len(@) |-> IF i = 1 THEN [@[i] EXCEPT !.bucket = bucket] ELSE @[i]]]
    ELSE o

\* .map(|s| s.items.into_iter().map(|mut item| { item.bucket = ...; item }).collect())
WithBucketEach(o, bucket) ==
    IF o.result.tag = "Ok"
    THEN [o EXCEPT !.result.value.many =
            [i \in 1..Len(@) |-> [@[i] EXCEPT !.bucket = bucket]]]
    ELSE o

\* mutant of JsonMatch: the Error arm returns a default success value
JsonMatchLenient(T, body) ==
    LET env == GoogleResponse(T, body) IN
    CASE env.tag = "None" -> Outcome(NoEnvelope, {"body"}, Err(JsonError(body)))
      [] env.tag = "Success" -> Outcome(env, {}, Ok(env.value))
      [] env.tag = "Error" -> Outcome(env, {}, Ok(NoValue))

\* let result: GoogleResponse<T> = ... .json().await?;
\* match result { Success(s) => Ok(s), Error(e) => Err(e.into()) }
JsonMatch(T, body) ==
    LET env == GoogleResponse(T, body) IN
    CASE env.tag = "None" -> Outcome(NoEnvelope, {"body"}, Err(JsonError(body)))
      [] env.tag = "Success" -> Outcome(env, {}, Ok(env.value))
      [] env.tag = "Error" -> Outcome(env, {}, Google(env.detail))

BucketAccessControl_create(c, resp) == JsonMatch("BucketAccessControl", resp.body)
BucketAccessControl_list(c, resp) == JsonMatch("List<BucketAccessControl>", resp.body)
BucketAccessControl_read(c, resp) == JsonMatch("BucketAccessControl", resp.body)
BucketAccessControl_update(c, resp) == JsonMatch("BucketAccessControl", resp.body)

\* the status decides; the body is read only when the status is no success,
\* and then as a GoogleErrorResponse
BucketAccessControl_delete(c, resp) ==
    IF resp.status \in 200..299 THEN Outcome(NoEnvelope, {}, Ok(Unit))
    ELSE LET env == GoogleErrorResponse(resp.body) IN
         IF env.tag = "None" THEN Outcome(NoEnvelope, {"body"}, Err(JsonError(resp.body)))
         ELSE Outcome(env, {}, Google(env.detail))

ObjectAccessControl_create(c, resp) == JsonIntoResult("ObjectAccessControl", resp.body)
\* mutant of ObjectAccessControl_list: only the first item is returned
ObjectAccessControl_list_first(c, resp) ==
    LET o == JsonIntoResult("List<ObjectAccessControl>", resp.body) IN
    IF o.result.tag = "Ok" /\ Len(o.result.value.many) > 1
    THEN [o EXCEPT !.result.value.many = <<@[1]>>]
    ELSE o

ObjectAccessControl_list(c, resp) == JsonIntoResult("List<ObjectAccessControl>", resp.body)
\* mutant of ObjectAccessControl_read: the error is rebuilt without its per-field list
ObjectAccessControl_read_lossy(c, resp) ==
    LET o == JsonIntoResult("ObjectAccessControl", resp.body) IN
    IF o.result.tag = "Err" THEN [o EXCEPT !.result.detail.errors = <<>>] ELSE o

ObjectAccessControl_read(c, resp) == JsonIntoResult("ObjectAccessControl", resp.body)
ObjectAccessControl_update(c, resp) == JsonIntoResult("ObjectAccessControl", resp.body)
ObjectAccessControl_delete(c, resp) == JsonIntoResult("Unit", resp.body)

DefaultObjectAccessControl_create(c, resp) ==
    WithBucket(JsonIntoResult("DefaultObjectAccessControl", resp.body), c.bucket)
DefaultObjectAccessControl_list(c, resp) ==
    WithBucketEach(JsonIntoResult("List<DefaultObjectAccessControl>", resp.body), c.bucket)
\* mutant of DefaultObjectAccessControl_read: the record is returned as decoded
DefaultObjectAccessControl_read_bare(c, resp) ==
    JsonIntoResult("DefaultObjectAccessControl", resp.body)

DefaultObjectAccessControl_read(c, resp) ==
    WithBucket(JsonIntoResult("DefaultObjectAccessControl", resp.body), c.bucket)
\* mutant of DefaultObjectAccessControl_update: the record is returned as decoded
DefaultObjectAccessControl_update_bare(c, resp) ==
    JsonIntoResult("DefaultObjectAccessControl", resp.body)

DefaultObjectAccessControl_update(c, resp) ==
    WithBucket(JsonIntoResult("DefaultObjectAccessControl", resp.body), c.bucket)
DefaultObjectAccessControl_delete(c, resp) == JsonIntoResult("Unit", resp.body)

HmacKey_create(c, resp) == JsonIntoResult("HmacKey", resp.body)

\* mutant of HmacKey_list: the failure of json() is returned with `?`
HmacKey_list_strict(c, resp) == JsonIntoResult("HmacList", resp.body)

\* mutant of HmacKey_list: an error envelope is taken for an empty list too
HmacKey_list_forgiving(c, resp) ==
    LET env == GoogleResponse("HmacList", resp.body) IN
    IF env.tag = "Success" THEN Outcome(env, {}, into_result(env))
    ELSE Outcome(env, {}, Ok(Many(<<>>)))

\* .json::<GoogleResponse<ListResponse>>().await
\*     .map_or_else(|_| Ok(vec![]), |parsed| parsed.into_result().map(|s| s.items))
HmacKey_list(c, resp) ==
    LET env == GoogleResponse("HmacList", resp.body) IN
    IF env.tag = "None" THEN Outcome(NoEnvelope, {"body"}, Ok(Many(<<>>)))
    ELSE Outcome(env, {}, into_result(env))

HmacKey_read(c, resp) == JsonIntoResult("HmacMeta", resp.body)
HmacKey_update(c, resp) == JsonIntoResult("HmacMeta", resp.body)
\* mutant of HmacKey_delete: the answer is not looked at
HmacKey_delete_blind(c, resp) == Outcome(NoEnvelope, {}, Ok(Unit))

HmacKey_delete(c, resp) == JsonIntoResult("Unit", resp.body)

\* Bucket::create and Bucket::read: the steps of every operation (spec 4.3),
\* with Bucket as the success shape
Bucket_create(c, resp) == JsonIntoResult("Bucket", resp.body)
\* mutant of Bucket_read: the record returned is that of NewBucket::default()
Bucket_read_default(c, resp) ==
    LET o == JsonIntoResult("Bucket", resp.body) IN
    IF o.result.tag = "Ok" THEN [o EXCEPT !.result.value.one.name = ""] ELSE o

Bucket_read(c, resp) == JsonIntoResult("Bucket", resp.body)

Finish(c, resp) ==
    CASE c.res = "BucketAccessControl" ->
            (CASE c.kind = "create" -> BucketAccessControl_create(c, resp)
               [] c.kind = "list" -> BucketAccessControl_list(c, resp)
               [] c.kind = "read" -> BucketAccessControl_read(c, resp)
               [] c.kind = "update" -> BucketAccessControl_update(c, resp)
               [] c.kind = "delete" -> BucketAccessControl_delete(c, resp))
      [] c.res = "ObjectAccessControl" ->
            (CASE c.kind = "create" -> ObjectAccessControl_create(c, resp)
               [] c.kind = "list" -> ObjectAccessControl_list(c, resp)
               [] c.kind = "read" -> ObjectAccessControl_read(c, resp)
               [] c.kind = "update" -> ObjectAccessControl_update(c, resp)
               [] c.kind = "delete" -> ObjectAccessControl_delete(c, resp))
      [] c.res = "DefaultObjectAccessControl" ->
            (CASE c.kind = "create" -> DefaultObjectAccessControl_create(c, resp)
               [] c.kind = "list" -> DefaultObjectAccessControl_list(c, resp)
               [] c.kind = "read" -> DefaultObjectAccessControl_read(c, resp)
               [] c.kind = "update" -> DefaultObjectAccessControl_update(c, resp)
               [] c.kind = "delete" -> DefaultObjectAccessControl_delete(c, resp))
      [] c.res = "HmacKey" ->
            (CASE c.kind = "create" -> HmacKey_create(c, resp)
               [] c.kind = "list" -> HmacKey_list(c, resp)
               [] c.kind = "read" -> HmacKey_read(c, resp)
               [] c.kind = "update" -> HmacKey_update(c, resp)
               [] c.kind = "delete" -> HmacKey_delete(c, resp))
      [] c.res = "Bucket" ->
            (CASE c.kind = "create" -> Bucket_create(c, resp)
               [] c.kind = "read" -> Bucket_read(c, resp))

(***************************************************************************)
(* Actions                                                                 *)
(***************************************************************************)
Plain == <<"x">>
NoWire == [path |-> <<>>, query |-> <<>>]
NoSeen == [routed |-> FALSE, bucket |-> <<>>, object |-> <<>>]

\* no call is in progress
Idle ==
    /\ pc = "idle" /\ call = NoCall /\ headers = NoHeaders /\ request = NoRequest
    /\ sent = <<>> /\ response = NoResponse /\ envelope = NoEnvelope
    /\ failed = {} /\ result = Pending

\* no round trip of a request path is in progress
UOff ==
    /\ u_pc = "off" /\ u_stage = "call" /\ u_slot = "bucket" /\ u_id = Plain
    /\ u_url = <<>> /\ u_wire = NoWire /\ u_seen = NoSeen /\ u_store = {}
    /\ u_found = FALSE

\* the Client.token of a Client that has fetched no token yet
NoCredential == [value |-> Absent, expired |-> TRUE]

\* no task runs on a shared Client
TOff ==
    /\ t_client = [project_id |-> "p1", service_account |-> NoServiceAccount]
    /\ t_token = NoCredential /\ t_issued = 0 /\ t_fetched = Absent
    /\ t_pc = [p \in Tasks |-> "off"]
    /\ t_call = [p \in Tasks |-> NoCall]
    /\ t_headers = [p \in Tasks |-> NoHeaders]
    /\ t_request = [p \in Tasks |-> NoRequest]
    /\ t_wire = [p \in Tasks |-> NoResponse]
    /\ t_response = [p \in Tasks |-> NoResponse]
    /\ t_result = [p \in Tasks |-> Pending]

Unset == "<unset>"
\* the value of a variable that is set to bytes that are not valid Unicode
NotUnicode == "<not unicode>"

NoFromEnv == [tag |-> NA, kind |-> NA, var |-> NA, account |-> NoServiceAccount]

NoEnvironment ==
    [credential |-> "none", setup |-> "fails", GOOGLE_CLOUD_PROJECT |-> Unset,
     gcloud |-> "fails", gcemeta |-> "fails", SERVICE_ACCOUNT |-> Unset,
     GOOGLE_APPLICATION_CREDENTIALS |-> Unset]

NoClient == [built |-> FALSE, project_id |-> Absent, service_account |-> NoServiceAccount]

\* Client::new is not running
NOff ==
    /\ n_env = NoEnvironment /\ n_pc = "off" /\ n_token = FALSE /\ n_project = Absent
    /\ n_from = NoFromEnv
    /\ n_account = NoServiceAccount /\ n_result = Pending /\ n_client = NoClient

\* the names of the buckets made in the round trips
SvcBuckets == {"doctest-bucket", "b1"}

\* the ids of the entries of a resource: entity, access id or bucket name
SvcIds == Entities \cup AccessIds \cup SvcBuckets

NoLast == [by |-> NA, rec |-> NoRec, arg |-> NoRec]

\* no round trip to the service is in progress
SOff ==
    /\ s_res = NA /\ s_store = [id \in SvcIds |-> NA] /\ s_pc = "off"
    /\ s_call = NoCall /\ s_request = NoRequest /\ s_before = [id \in SvcIds |-> NA]
    /\ s_response = NoResponse /\ s_result = Pending
    /\ s_last = [id \in SvcIds |-> NoLast] /\ s_lastUpd = [id \in SvcIds |-> NA]
    /\ s_held = NoRec

NoParse == [ok |-> FALSE, state |-> NA]

\* no HmacState is converted
HOff == h_pc = "off" /\ h_state = NA /\ h_wire = <<>> /\ h_parsed = NoParse

NoTexts == [a |-> <<>>, b |-> <<>>]

\* nothing is formatted
DOff == d_kind = NA /\ d_a = NA /\ d_b = NA /\ d_text = NoTexts

\* no test helper runs
BOff ==
    /\ b_name = NA /\ b_store = [id \in SvcIds |-> NA] /\ b_made = 0
    /\ b_helper = [p \in Tasks |-> NA] /\ b_pc = [p \in Tasks |-> "off"]
    /\ b_request = [p \in Tasks |-> NoRequest]
    /\ b_response = [p \in Tasks |-> NoResponse]
    /\ b_result = [p \in Tasks |-> Pending]

YOff == HOff /\ DOff /\ BOff

\* the other parts of the model are at rest
XOff == TOff /\ NOff /\ SOff /\ YOff

Init ==
    /\ client \in Clients
    /\ Idle
    /\ UOff
    /\ XOff

\* mutant of Start: HmacKey::create does not look at the service account
StartUnchecked(c) ==
    /\ pc = "idle"
    /\ call' = c
    /\ pc' = "headers"
    /\ UNCHANGED <<client, headers, request, sent, response, envelope, failed, result>>
    /\ UNCHANGED <<uvars, xvars>>

\* the entry of an operation, up to the first await.  HmacKey::create needs
\* the service account of the Client and returns at once without it.
Start(c) ==
    /\ pc = "idle"
    /\ call' = c
    /\ IF c.res = "HmacKey" /\ c.kind = "create"
          /\ client.service_account = NoServiceAccount
       THEN /\ pc' = "done"
            /\ failed' = {"service_account"}
            /\ result' = Err("MissingServiceAccount")
       ELSE /\ pc' = "headers"
            /\ UNCHANGED <<failed, result>>
    /\ UNCHANGED <<client, headers, request, sent, response, envelope>>
    /\ UNCHANGED <<uvars, xvars>>

\* mutant of GetHeaders: the request is built and sent without the header
\* when get_headers fails
GetHeadersEager(outcome, t) ==
    /\ pc = "headers"
    /\ headers' = get_headers(outcome, t)
    /\ request' = RequestOf(client, call, headers'.auth)
    /\ IF headers'.ok
       THEN pc' = "send" /\ UNCHANGED <<sent, failed, result>>
       ELSE /\ pc' = "done"
            /\ sent' = <<request'>>
            /\ failed' = {"headers"}
            /\ result' = Err(headers'.kind)
    /\ UNCHANGED <<client, call, response, envelope>>
    /\ UNCHANGED <<uvars, xvars>>

\* Client::get / post / put / delete: get_headers().await?, then the builder;
\* in the BucketAccessControl operations crate::get_headers().await? and the
\* builder of crate::CLIENT
GetHeaders(outcome, t) ==
    /\ pc = "headers"
    /\ headers' = IF call.res = "BucketAccessControl"
                  THEN crate_get_headers(outcome, t)
                  ELSE get_headers(outcome, t)
    /\ LET h == headers' IN
       IF h.ok
       THEN /\ request' = IF call.res = "BucketAccessControl"
                           THEN StaticRequestOf(call, h.auth)
                           ELSE RequestOf(client, call, h.auth)
            /\ pc' = "send"
            /\ UNCHANGED <<failed, result>>
       ELSE /\ pc' = "done"
            /\ failed' = {"headers"}
            /\ result' = Err(h.kind)
            /\ UNCHANGED request
    /\ UNCHANGED <<client, call, sent, response, envelope>>
    /\ UNCHANGED <<uvars, xvars>>

\* mutant of SendFails: the request is sent once more after the failure
SendFailsRetry ==
    /\ pc = "send"
    /\ sent' = Append(Append(sent, request), request)
    /\ pc' = "done"
    /\ failed' = {"send"}
    /\ result' = Err("Transport")
    /\ UNCHANGED <<client, call, headers, request, response, envelope>>
    /\ UNCHANGED <<uvars, xvars>>

\* .send().await? with a transport failure
SendFails ==
    /\ pc = "send"
    /\ sent' = Append(sent, request)
    /\ pc' = "done"
    /\ failed' = {"send"}
    /\ result' = Err("Transport")
    /\ UNCHANGED <<client, call, headers, request, response, envelope>>
    /\ UNCHANGED <<uvars, xvars>>

\* .send().await? answered by the service, and the rest of the operation:
\* the body is read, decoded and turned into the result
Answered(status, body) ==
    /\ pc = "send"
    /\ sent' = Append(sent, request)
    /\ response' = [status |-> status, body |-> body]
    /\ LET o == Finish(call, response') IN
       /\ envelope' = o.envelope
       /\ failed' = o.failed
       /\ result' = o.result
    /\ pc' = "done"
    /\ UNCHANGED <<client, call, headers, request>>
    /\ UNCHANGED <<uvars, xvars>>

\* the caller has the result; the next call starts afresh
Return ==
    /\ pc = "done"
    /\ pc' = "idle"
    /\ call' = NoCall
    /\ headers' = NoHeaders
    /\ request' = NoRequest
    /\ sent' = <<>>
    /\ response' = NoResponse
    /\ envelope' = NoEnvelope
    /\ failed' = {}
    /\ result' = Pending
    /\ UNCHANGED client
    /\ UNCHANGED <<uvars, xvars>>

Next ==
    \/ \E c \in Calls : Start(c)
    \/ \E outcome \in TokenOutcomes, t \in Tokens : GetHeaders(outcome, t)
    \/ SendFails
    \/ \E status \in Statuses, body \in Bodies : Answered(status, body)
    \/ Return

Spec == Init /\ [][Next]_vars

(***************************************************************************)
(* Properties                                                              *)
(***************************************************************************)
Returned == pc = "done"
Responded == pc = "done" /\ response.status # 0

\* the body is JSON text, or text that is no JSON, that was read to its end
WasRead(body) == body.json # "unreadable"

\* the body matches neither the error shape nor the success shape of the call
MatchesNeither(c, body) ==
    \/ ~IsJson(body)
    \/ ~HasErrorObject(body) /\ ~SuccessOfJson(ShapeOf(c), body).ok

IsDefaultAcl(kinds) == call.res = "DefaultObjectAccessControl" /\ call.kind \in kinds

\* C1: a successful DefaultObjectAccessControl::create, read or list called
\* with bucket b returns only records whose bucket field is b, whatever the
\* response body holds for that field; for list this holds of every item.
C1_BucketOfCaller ==
    (Returned /\ IsDefaultAcl({"create", "read", "list"}) /\ result.tag = "Ok") =>
        IF call.kind = "list"
        THEN \A i \in 1..Len(result.value.many) : result.value.many[i].bucket = call.bucket
        ELSE result.value.one.bucket = call.bucket

\* a list returned items that the response gave under another bucket name
C1_Witness ==
    /\ Returned /\ IsDefaultAcl({"list"}) /\ result.tag = "Ok"
    /\ Len(result.value.many) >= 2
    /\ \A i \in 1..Len(response.body.items.list) :
          response.body.items.list[i].bucket # call.bucket

\* C2 as stated: every response body decodes to exactly one of Success and
\* Error, never neither, and the operation returns Ok exactly when the
\* envelope is Success and Err exactly when it is Error.
C2_EveryBodyIsAnEnvelope ==
    Responded =>
        /\ envelope.tag \in {"Success", "Error"}
        /\ (result.tag = "Ok") <=> (envelope.tag = "Success")
        /\ (result.tag = "Err") <=> (envelope.tag = "Error")

\* C2 (amended): decoding a response body yields at most one of Success and
\* Error, never both; it yields neither only when the body is not JSON or
\* matches neither shape.  An operation that decoded an envelope returns Ok
\* exactly when the envelope is Success and Err exactly when it is Error.
C2_EnvelopeDecidesResult ==
    Returned =>
        /\ envelope.tag \in {"Success", "Error", "None"}
        /\ envelope.tag = "Success" => envelope.detail = NoDetail
        /\ envelope.tag = "Error" => envelope.value = NoValue
        /\ envelope.tag # "None" =>
              /\ (result.tag = "Ok") <=> (envelope.tag = "Success")
              /\ (result.tag = "Err") <=> (envelope.tag = "Error")
        /\ (Responded /\ envelope.tag = "None"
              /\ ~(call.res = "BucketAccessControl" /\ call.kind = "delete")) =>
              MatchesNeither(call, response.body)

\* BucketAccessControl::create got an error envelope and returned Err
C2_Witness ==
    /\ Returned /\ call.res = "BucketAccessControl" /\ call.kind = "create"
    /\ envelope.tag = "Error" /\ result.tag = "Err"
    /\ response.body.res.shape = "acl" /\ response.body.res.bucket # Absent

\* C3: a response body that holds an "error" object matching the error
\* schema makes the operation return an error, whatever the HTTP status is,
\* for every operation of every resource.
C3_ErrorBodyIsError ==
    (Responded /\ HasErrorObject(response.body)) => result.tag = "Err"

\* C4 as stated: a list operation whose response body is a JSON object
\* without an "items" key returns Ok with an empty collection.
C4_NoItemsIsEmpty ==
    (Responded /\ call.kind = "list" /\ response.body.json = "object"
        /\ ~response.body.items.present) => result = Ok(Many(<<>>))

\* C4 (amended): a list operation whose response body is a JSON object
\* without an "items" key and without an error object matching the error
\* schema returns Ok with an empty collection.
C4_NoItemsNoErrorIsEmpty ==
    (Responded /\ call.kind = "list" /\ response.body.json = "object"
        /\ ~response.body.items.present /\ ~HasErrorObject(response.body)) =>
        result = Ok(Many(<<>>))

\* HmacKey::list got an object with neither items nor error nor any record member
C4_Witness ==
    /\ Responded /\ call.res = "HmacKey" /\ call.kind = "list"
    /\ response.body.json = "object" /\ ~response.body.items.present
    /\ ~response.body.error.present /\ response.body.res = NoRec
    /\ result = Ok(Many(<<>>))

\* C6: no operation returns Ok after one of its steps failed.
C6_NoErrorSwallowed ==
    (Returned /\ failed # {}) => result.tag = "Err"

BodyIsDecoded ==
    ~(call.res = "BucketAccessControl" /\ call.kind = "delete"
        /\ response.status \in 200..299)

\* C8: a body that is malformed or matches neither shape surfaces as a
\* decode error, a network failure while sending as a transport error;
\* neither is reported as a remote error or as a success.
C8_DecodeAndTransportErrors ==
    /\ (Responded /\ BodyIsDecoded /\ WasRead(response.body)
          /\ MatchesNeither(call, response.body)) => result = Err("Decode")
    /\ (Returned /\ "send" \in failed) => result = Err("Transport")

C10_BuiltByClient ==
    \A i \in 1..Len(sent) :
        /\ headers.ok
        /\ sent[i].via = "Client"
        /\ sent[i].auth \in Tokens
        /\ sent[i].auth = headers.auth

\* C10 (amended): every request sent was built after a token was obtained
\* and carries that token in its Authorization header; it was built by
\* Client::get, post, put or delete for the verb of the operation, except
\* in the BucketAccessControl operations, which build it on crate::CLIENT
\* with the headers of crate::get_headers.
C10_Authorized ==
    \A i \in 1..Len(sent) :
        /\ headers.ok
        /\ sent[i].auth \in Tokens
        /\ sent[i].auth = headers.auth
        /\ sent[i].method = Method(call)
        /\ (sent[i].via = "Client") <=> (call.res # "BucketAccessControl")
        /\ sent[i].via \in {"Client", "crate::CLIENT"}

\* an update went out through Client::put with the second token
C10_Witness ==
    /\ Len(sent) = 1 /\ sent[1].auth = "t2" /\ headers.auth = "t2"
    /\ sent[1].method = "PUT" /\ sent[1].via = "Client"


(***************************************************************************)
(* The request path.  In this part an identifier is a string: a sequence   *)
(* of characters.  format! puts the identifiers into the template as they  *)
(* are; RequestBuilder is given the text and parses it as a URL            *)
(* (reqwest::IntoUrl), and the service decodes the path it receives.       *)
(***************************************************************************)
MaxIdLen == 3

\* a plain character, the reserved characters of the claim, and two digits
\* so that an identifier can hold a percent escape of its own
Chars == {"x", "/", "?", "#", "%", " ", "2", "5"}
HexDigits == {"0", "2", "5"}

Strings == UNION {[1..k -> Chars] : k \in 1..MaxIdLen}

u_bucket == IF u_slot = "bucket" THEN u_id ELSE Plain
u_object == IF u_slot = "object" THEN u_id ELSE Plain

\* ObjectAccessControl::create: format!("{}/b/{}/o/{}/acl", BASE_URL, bucket, object)
CreateUrl(bucket, object) ==
    <<"/", "b", "/">> \o bucket \o <<"/", "o", "/">> \o object \o <<"/", "acl">>

\* ObjectAccessControl::read: format!("{}/b/{}/o/{}/acl/{}", BASE_URL, bucket, object, entity)
ReadUrl(bucket, object, entity) ==
    <<"/", "b", "/">> \o bucket \o <<"/", "o", "/">> \o object
        \o <<"/", "acl", "/", entity>>

\* the position of the first ch in s, or Len(s) + 1
RECURSIVE FirstOf(_, _, _)
FirstOf(s, chs, i) ==
    IF i > Len(s) THEN Len(s) + 1
    ELSE IF s[i] \in chs THEN i
    ELSE FirstOf(s, chs, i + 1)

\* the percent-encode set of a URL path, as far as Chars goes: the space
RECURSIVE EncodePath(_)
EncodePath(s) ==
    IF s = <<>> THEN <<>>
    ELSE IF Head(s) = " " THEN <<"%", "2", "0">> \o EncodePath(Tail(s))
    ELSE <<Head(s)>> \o EncodePath(Tail(s))

\* reqwest::IntoUrl (Url::parse): the fragment starts at the first '#' and
\* is not sent; the query starts at the first '?' before it; the rest is
\* the path, whose '/' separate segments and whose '%' stay as they are
IntoUrl(s) ==
    LET f == FirstOf(s, {"#"}, 1)
        noFragment == SubSeq(s, 1, f - 1)
        q == FirstOf(noFragment, {"?"}, 1)
    IN [path |-> EncodePath(SubSeq(noFragment, 1, q - 1)),
        query |-> SubSeq(noFragment, q + 1, Len(noFragment))]

\* the segments of a path: the texts between its '/'
RECURSIVE Segments(_)
Segments(s) ==
    LET i == FirstOf(s, {"/"}, 1) IN
    IF i > Len(s) THEN <<s>>
    ELSE <<SubSeq(s, 1, i - 1)>> \o Segments(SubSeq(s, i + 1, Len(s)))

Unhex(h1, h2) ==
    CASE h1 = "2" /\ h2 = "0" -> " "
      [] h1 = "2" /\ h2 = "5" -> "%"
      [] h1 = "2" /\ h2 = "2" -> "\""
      [] h1 = "5" /\ h2 = "0" -> "P"
      [] h1 = "5" /\ h2 = "2" -> "R"
      [] h1 = "5" /\ h2 = "5" -> "U"
      [] OTHER -> "ctl"

\* percent-decoding of a segment by the service
RECURSIVE PercentDecode(_)
PercentDecode(s) ==
    IF s = <<>> THEN <<>>
    ELSE IF Head(s) = "%" /\ Len(s) >= 3 /\ s[2] \in HexDigits /\ s[3] \in HexDigits
    THEN <<Unhex(s[2], s[3])>> \o PercentDecode(SubSeq(s, 4, Len(s)))
    ELSE <<Head(s)>> \o PercentDecode(Tail(s))

\* the service: /b/{bucket}/o/{object}/acl and /b/{bucket}/o/{object}/acl/{entity}
Route(op, wire) ==
    LET segs == Segments(wire.path)
        n == IF op = "create" THEN 6 ELSE 7
    IN IF /\ Len(segs) = n
          /\ segs[1] = <<>> /\ segs[2] = <<"b">> /\ segs[4] = <<"o">> /\ segs[6] = <<"acl">>
          /\ segs[3] # <<>> /\ segs[5] # <<>>
       THEN [routed |-> TRUE, bucket |-> PercentDecode(segs[3]),
             object |-> PercentDecode(segs[5])]
       ELSE NoSeen

InitUrl ==
    /\ client \in {cl \in Clients : cl.service_account # NoServiceAccount}
    /\ Idle
    /\ u_pc = "create" /\ u_stage = "call"
    /\ u_slot \in {"bucket", "object"}
    /\ u_id \in Strings
    /\ u_url = <<>> /\ u_wire = NoWire /\ u_seen = NoSeen /\ u_store = {}
    /\ u_found = FALSE
    /\ XOff

\* the operation formats its url
Format ==
    /\ u_pc \in {"create", "read"} /\ u_stage = "call"
    /\ u_url' = IF u_pc = "create" THEN CreateUrl(u_bucket, u_object)
                ELSE ReadUrl(u_bucket, u_object, "allUsers")
    /\ u_stage' = "url"
    /\ UNCHANGED <<u_pc, u_slot, u_id, u_wire, u_seen, u_store, u_found>>
    /\ UNCHANGED <<cvars, xvars>>

\* cloud_storage.post(&url) / get(&url) and send: the url is parsed and sent
Transmit ==
    /\ u_pc \in {"create", "read"} /\ u_stage = "url"
    /\ u_wire' = IntoUrl(u_url)
    /\ u_stage' = "wire"
    /\ UNCHANGED <<u_pc, u_slot, u_id, u_url, u_seen, u_store, u_found>>
    /\ UNCHANGED <<cvars, xvars>>

\* the service routes a create: the entry is kept under the names it decoded
ServeCreate ==
    /\ u_pc = "create" /\ u_stage = "wire"
    /\ u_seen' = Route("create", u_wire)
    /\ u_store' = IF u_seen'.routed
                  THEN u_store \cup {<<u_seen'.bucket, u_seen'.object>>}
                  ELSE u_store
    /\ u_pc' = "read" /\ u_stage' = "call"
    /\ UNCHANGED <<u_slot, u_id, u_url, u_wire, u_found>>
    /\ UNCHANGED <<cvars, xvars>>

\* the service routes a read: the entry is looked up under the names it decoded
ServeRead ==
    /\ u_pc = "read" /\ u_stage = "wire"
    /\ u_seen' = Route("read", u_wire)
    /\ u_found' = (u_seen'.routed /\ <<u_seen'.bucket, u_seen'.object>> \in u_store)
    /\ u_pc' = "end"
    /\ UNCHANGED <<u_stage, u_slot, u_id, u_url, u_wire, u_store>>
    /\ UNCHANGED <<cvars, xvars>>

NextUrl == Format \/ Transmit \/ ServeCreate \/ ServeRead

SpecUrl == InitUrl /\ [][NextUrl]_vars

\* C5: the path of a request percent-encodes the identifiers, so that the
\* service decodes exactly the identifier the caller gave, and an entry
\* created under it is found again by a read with the same identifier.
C5_PathRoundTrip ==
    /\ (u_pc = "read" /\ u_stage = "call") =>
          u_store = {<<u_bucket, u_object>>}
    /\ (u_pc \in {"read", "end"}) =>
          u_seen = [routed |-> TRUE, bucket |-> u_bucket, object |-> u_object]
    /\ (u_pc = "end") => u_found

(***************************************************************************)
(* The shared Client.  Several tasks call operations on one Client at the  *)
(* same time; a step of a task is the code between two of its await        *)
(* points.  Every operation takes &crate::Client.  The Client builds its   *)
(* gouth::Token once, in Client::new, and get_headers reads that Token     *)
(* through header_value at every call.  The cache is inside gouth::Token:  *)
(* a call of header_value is one step here.                                *)
(***************************************************************************)
MaxIssued == 3

\* a token that is no valid header value
BadToken == "bad"

\* what the identity service answers when it is asked for a token
Issues == [ok : {TRUE}, value : Tokens \cup {BadToken}]
              \cup {[ok |-> FALSE, value |-> Absent]}

\* gouth::Token::header_value: the cached value while it has not expired,
\* otherwise a token of the identity service, which replaces the cached one
header_value(tok, issue) ==
    IF tok.value # Absent /\ ~tok.expired
    THEN [ok |-> TRUE, value |-> tok.value, token |-> tok, called |-> FALSE]
    ELSE IF issue.ok
    THEN [ok |-> TRUE, value |-> issue.value,
          token |-> [value |-> issue.value, expired |-> FALSE], called |-> TRUE]
    ELSE [ok |-> FALSE, value |-> Absent, token |-> tok, called |-> TRUE]

\* mutant of TokenOf: get_headers builds a Token of its own for the call
TokenOfFresh(tok) == NoCredential

\* the Token that get_headers reads: self.token
TokenOf(tok) == tok

\* token.parse()?: the token as a header value
Parses(t) == t \in Tokens

\* Client::get_headers on the shared Client: header_value()?, then parse()?
SharedGetHeaders(tok, issue) ==
    LET hv == header_value(TokenOf(tok), issue) IN
    [fetch |-> hv,
     headers |-> get_headers(IF ~hv.ok THEN "auth"
                             ELSE IF Parses(hv.value) THEN "ok" ELSE "invalid",
                             hv.value)]

\* the Client after an operation has used it: every operation takes
\* &crate::Client and reads service_account through as_ref()
ClientAfter(cl, c) == cl

\* mutant of Deliver: the response is kept in one place for all the calls
DeliverShared(resps, p, resp) == [q \in Tasks |-> resp]

\* .send().await?: the response is a value of the call that sent the request
Deliver(resps, p, resp) == [resps EXCEPT ![p] = resp]

\* the operations the tasks call
TaskCalls ==
    {c \in Calls :
        \/ c.res = "ObjectAccessControl" /\ c.kind = "read" /\ c.bucket = "b1"
              /\ c.entity = "allUsers"
        \/ c.res = "HmacKey" /\ c.kind \in {"create", "list"}}

NotFoundBody ==
    [json |-> "object",
     error |-> [present |-> TRUE, valid |-> TRUE,
                detail |-> [code |-> 404, message |-> "Not Found", errors |-> <<>>]],
     items |-> NoItems, res |-> NoRec]

AclBody ==
    [json |-> "object", error |-> NoError, items |-> NoItems,
     res |-> [NoRec EXCEPT !.shape = "acl", !.bucket = "b2", !.entity = "allUsers",
                           !.role = "READER"]]

\* the bodies the service answers the tasks with
TaskBodies == {EmptyBody, NotFoundBody, AclBody}

\* everything but the state of the tasks
NotTasks == <<cvars, uvars, nvars, svars, yvars>>

\* the parts of the model other than the single call are at rest
COff == client = [project_id |-> "p1", service_account |-> NoServiceAccount] /\ Idle

InitTasks ==
    /\ COff /\ UOff /\ NOff /\ SOff /\ YOff
    /\ t_client \in Clients
    /\ t_token = NoCredential /\ t_issued = 0 /\ t_fetched = Absent
    /\ t_pc = [p \in Tasks |-> "idle"]
    /\ t_call = [p \in Tasks |-> NoCall]
    /\ t_headers = [p \in Tasks |-> NoHeaders]
    /\ t_request = [p \in Tasks |-> NoRequest]
    /\ t_wire = [p \in Tasks |-> NoResponse]
    /\ t_response = [p \in Tasks |-> NoResponse]
    /\ t_result = [p \in Tasks |-> Pending]

\* a task enters an operation
TStart(p, c) ==
    /\ t_pc[p] = "idle"
    /\ t_call' = [t_call EXCEPT ![p] = c]
    /\ t_client' = ClientAfter(t_client, c)
    /\ IF c.res = "HmacKey" /\ c.kind = "create"
          /\ t_client.service_account = NoServiceAccount
       THEN /\ t_pc' = [t_pc EXCEPT ![p] = "done"]
            /\ t_result' = [t_result EXCEPT ![p] = Err("MissingServiceAccount")]
       ELSE /\ t_pc' = [t_pc EXCEPT ![p] = "headers"]
            /\ UNCHANGED t_result
    /\ UNCHANGED <<t_token, t_issued, t_fetched, t_headers, t_request, t_wire, t_response>>
    /\ UNCHANGED NotTasks

\* Client::get / post / put / delete of a task: get_headers().await?, then
\* the builder; the token comes from the Token of the Client
TGetHeaders(p, issue) ==
    /\ t_pc[p] = "headers"
    /\ LET g == SharedGetHeaders(t_token, issue) IN
       /\ g.fetch.called => t_issued < MaxIssued
       /\ t_token' = g.fetch.token
       /\ t_issued' = IF g.fetch.called THEN t_issued + 1 ELSE t_issued
       /\ t_fetched' = g.fetch.value
       /\ t_headers' = [t_headers EXCEPT ![p] = g.headers]
       /\ IF g.headers.ok
          THEN /\ t_request' = [t_request EXCEPT
                                   ![p] = RequestOf(t_client, t_call[p], g.headers.auth)]
               /\ t_pc' = [t_pc EXCEPT ![p] = "send"]
               /\ UNCHANGED t_result
          ELSE /\ t_pc' = [t_pc EXCEPT ![p] = "done"]
               /\ t_result' = [t_result EXCEPT ![p] = Err(g.headers.kind)]
               /\ UNCHANGED t_request
    /\ UNCHANGED <<t_client, t_call, t_wire, t_response>>
    /\ UNCHANGED NotTasks

\* time passes beyond the expiry of the cached token
Expire ==
    /\ t_token.value # Absent /\ ~t_token.expired
    /\ t_token' = [t_token EXCEPT !.expired = TRUE]
    /\ t_fetched' = Absent
    /\ UNCHANGED <<t_client, t_issued, t_pc, t_call, t_headers, t_request, t_wire,
                   t_response, t_result>>
    /\ UNCHANGED NotTasks

\* .send().await? of a task with a transport failure
TSendFails(p) ==
    /\ t_pc[p] = "send"
    /\ t_pc' = [t_pc EXCEPT ![p] = "done"]
    /\ t_result' = [t_result EXCEPT ![p] = Err("Transport")]
    /\ UNCHANGED <<t_client, t_token, t_issued, t_fetched, t_call, t_headers, t_request,
                   t_wire, t_response>>
    /\ UNCHANGED NotTasks

\* .send().await? of a task: the service answers the request of the task
TAnswered(p, status, body) ==
    /\ t_pc[p] = "send"
    /\ t_wire' = [t_wire EXCEPT ![p] = [status |-> status, body |-> body]]
    /\ t_response' = Deliver(t_response, p, t_wire'[p])
    /\ t_pc' = [t_pc EXCEPT ![p] = "recv"]
    /\ UNCHANGED <<t_client, t_token, t_issued, t_fetched, t_call, t_headers, t_request,
                   t_result>>
    /\ UNCHANGED NotTasks

\* the rest of the operation of a task: the body is read, decoded and
\* turned into the result
TFinish(p) ==
    /\ t_pc[p] = "recv"
    /\ t_result' = [t_result EXCEPT ![p] = Finish(t_call[p], t_response[p]).result]
    /\ t_pc' = [t_pc EXCEPT ![p] = "done"]
    /\ UNCHANGED <<t_client, t_token, t_issued, t_fetched, t_call, t_headers, t_request,
                   t_wire, t_response>>
    /\ UNCHANGED NotTasks

\* the caller of the task has the result
TReturn(p) ==
    /\ t_pc[p] = "done"
    /\ t_pc' = [t_pc EXCEPT ![p] = "idle"]
    /\ t_call' = [t_call EXCEPT ![p] = NoCall]
    /\ t_headers' = [t_headers EXCEPT ![p] = NoHeaders]
    /\ t_request' = [t_request EXCEPT ![p] = NoRequest]
    /\ t_wire' = [t_wire EXCEPT ![p] = NoResponse]
    /\ t_response' = [t_response EXCEPT ![p] = NoResponse]
    /\ t_result' = [t_result EXCEPT ![p] = Pending]
    /\ UNCHANGED <<t_client, t_token, t_issued, t_fetched>>
    /\ UNCHANGED NotTasks

NextTasks ==
    \/ \E p \in Tasks, c \in TaskCalls : TStart(p, c)
    \/ \E p \in Tasks, issue \in Issues : TGetHeaders(p, issue)
    \/ Expire
    \/ \E p \in Tasks : TSendFails(p)
    \/ \E p \in Tasks, body \in TaskBodies : TAnswered(p, 200, body)
    \/ \E p \in Tasks : TFinish(p)
    \/ \E p \in Tasks : TReturn(p)

SpecTasks == InitTasks /\ [][NextTasks]_vars

\* a task fetches a token in this step
FetchBy(p) == t_pc[p] = "headers" /\ t_pc'[p] # "headers"

\* C11: two token fetches on the same Client with no expiry between them
\* return the same cached token value, and the second fetch causes no call
\* to the identity service.
C11_CachedToken ==
    [][\A p \in Tasks : (FetchBy(p) /\ t_fetched # Absent) =>
          /\ t_fetched' = t_fetched
          /\ t_issued' = t_issued
          /\ t_token' = t_token
          /\ Parses(t_fetched) => (t_headers'[p].ok /\ t_headers'[p].auth = t_fetched)]_vars

\* both tasks hold the token that one call to the identity service gave
C11_Witness ==
    /\ t_issued = 1 /\ t_fetched \in Tokens /\ ~t_token.expired
    /\ \A p \in Tasks : t_pc[p] = "send" /\ t_headers[p].ok /\ t_headers[p].auth = t_fetched

\* what a call keeps between its steps
Local(p) == <<t_pc[p], t_call[p], t_headers[p], t_request[p], t_response[p], t_result[p]>>

\* a task has returned from a call that the service answered
AnsweredTask(p) == t_pc[p] = "done" /\ t_wire[p].status # 0

\* C20: concurrent operations on one shared Client do not interfere.  In
\* every interleaving the result of a call is the decoding of what the
\* service answered to the request of that call, and the request is that of
\* the call; a step of one task leaves what the other tasks keep as it is;
\* no step changes project_id or service_account of the Client (of the
\* shared state, only the token cache changes).
C20_NoInterference ==
    /\ [](\A p \in Tasks :
            /\ AnsweredTask(p) =>
                  /\ t_result[p] = Finish(t_call[p], t_wire[p]).result
                  /\ t_request[p] = RequestOf(t_client, t_call[p], t_headers[p].auth)
            /\ t_pc[p] = "recv" => t_response[p] = t_wire[p])
    /\ [][/\ t_client' = t_client
          /\ \A q \in Tasks : t_pc'[q] = t_pc[q] => Local(q)' = Local(q)]_vars

\* two calls of the same operation, in flight at the same time, were
\* answered differently and each returned the decoding of its own answer
C20_Witness ==
    /\ \A p \in Tasks : AnsweredTask(p) /\ t_call[p].res = "ObjectAccessControl"
    /\ t_wire["task1"].body = NotFoundBody /\ t_result["task1"].tag = "Err"
    /\ t_wire["task2"].body = AclBody /\ t_result["task2"].tag = "Ok"
    /\ t_token.value # Absent

(***************************************************************************)
(* Client::new.  The fields of the struct literal are evaluated in the     *)
(* order they are written: the token of gouth::Builder, project_id(),      *)
(* ServiceAccount::from_env().ok(), reqwest::Client::new().  The           *)
(* environment is what the process finds: the credential source of the     *)
(* token, the three sources of the project id, and the two variables that  *)
(* can name the service account file.                                      *)
(***************************************************************************)
\* what a variable naming the service account file leads to
FileStates == {"ok", "missing", "invalid", "othertype"}

Environments ==
    [credential : {"file", "ambient", "none"},     \* the source of the token
     setup : {"ok", "fails"},                      \* setting the token source up
     GOOGLE_CLOUD_PROJECT : {Unset, NotUnicode, "p-env"},
     gcloud : {"fails", "p-gcloud"},               \* gcloud config get-value project
     gcemeta : {"fails", "p-meta"},                \* gcemeta::project_id()
     SERVICE_ACCOUNT : {Unset, NotUnicode} \cup FileStates,
     GOOGLE_APPLICATION_CREDENTIALS : {Unset, NotUnicode} \cup FileStates]

\* gouth::Builder::new().scopes(..).build(): a Token when a credential
\* source is found and set up, otherwise the error of the credential provider
Builder_build(env) ==
    IF env.credential = "none" THEN [ok |-> FALSE, kind |-> "Configuration"]
    ELSE IF env.setup = "fails" THEN [ok |-> FALSE, kind |-> "Auth"]
    ELSE [ok |-> TRUE, kind |-> NA]

\* std::env::var: Err when the variable is not set or is not valid Unicode
env_var(v) ==
    IF v \in {Unset, NotUnicode} THEN [ok |-> FALSE, value |-> Absent]
    ELSE [ok |-> TRUE, value |-> v]

\* mutant of project_id: an empty project id when no source gives one
project_id_or_default(env) ==
    IF env_var(env.GOOGLE_CLOUD_PROJECT).ok
    THEN [ok |-> TRUE, id |-> env_var(env.GOOGLE_CLOUD_PROJECT).value]
    ELSE IF env.gcloud # "fails" THEN [ok |-> TRUE, id |-> env.gcloud]
    ELSE IF env.gcemeta # "fails" THEN [ok |-> TRUE, id |-> env.gcemeta]
    ELSE [ok |-> TRUE, id |-> ""]

\* std::env::var("GOOGLE_CLOUD_PROJECT").or_else(|_| gcloud_project())
\*     .or_else(|_| Ok(gcemeta::project_id()?))
project_id(env) ==
    IF env_var(env.GOOGLE_CLOUD_PROJECT).ok
    THEN [ok |-> TRUE, id |-> env_var(env.GOOGLE_CLOUD_PROJECT).value]
    ELSE IF env.gcloud # "fails" THEN [ok |-> TRUE, id |-> env.gcloud]
    ELSE IF env.gcemeta # "fails" THEN [ok |-> TRUE, id |-> env.gcemeta]
    ELSE [ok |-> FALSE, id |-> Absent]

\* the ServiceAccount that serde_json::from_str gives for a file that is
\* valid JSON of the struct
AccountOfFile(file) ==
    [client_email |-> "sa@example.iam",
     type |-> IF file = "ok" THEN "service_account" ELSE "authorized_user"]

FromEnv(tag, kind, var, account) ==
    [tag |-> tag, kind |-> kind, var |-> var, account |-> account]

\* mutant of from_env: the type of the account is not looked at
from_env_untyped(env) ==
    LET sa == env_var(env.SERVICE_ACCOUNT)
        gac == env_var(env.GOOGLE_APPLICATION_CREDENTIALS)
        var == IF sa.ok THEN "SERVICE_ACCOUNT"
               ELSE IF gac.ok THEN "GOOGLE_APPLICATION_CREDENTIALS" ELSE NA
        file == IF sa.ok THEN sa.value ELSE gac.value
    IN CASE var = NA -> FromEnv("Err", "Other", NA, NoServiceAccount)
         [] file \in {"missing", "invalid"} -> FromEnv("Panic", file, var, NoServiceAccount)
         [] OTHER -> FromEnv("Ok", NA, var, AccountOfFile(file))

\* ServiceAccount::from_env: the path is the value of SERVICE_ACCOUNT, or
\* else of GOOGLE_APPLICATION_CREDENTIALS; Err when std::env::var gives
\* neither, and a panic when the file is missing, is no valid JSON of the
\* struct, or has another type
from_env(env) ==
    LET sa == env_var(env.SERVICE_ACCOUNT)
        gac == env_var(env.GOOGLE_APPLICATION_CREDENTIALS)
        var == IF sa.ok THEN "SERVICE_ACCOUNT"
               ELSE IF gac.ok THEN "GOOGLE_APPLICATION_CREDENTIALS" ELSE NA
        file == IF sa.ok THEN sa.value ELSE gac.value
    IN CASE var = NA -> FromEnv("Err", "Other", NA, NoServiceAccount)
         [] file \in {"missing", "invalid"} -> FromEnv("Panic", file, var, NoServiceAccount)
         [] AccountOfFile(file).type # "service_account" ->
                FromEnv("Panic", file, var, NoServiceAccount)
         [] OTHER -> FromEnv("Ok", NA, var, AccountOfFile(file))

\* Result::ok(): the error is dropped
Result_ok(r) == IF r.tag = "Ok" THEN r.account ELSE NoServiceAccount

\* everything but the state of Client::new
NotNew == <<cvars, uvars, tvars, svars, yvars>>

InitNew ==
    /\ COff /\ UOff /\ TOff /\ SOff /\ YOff
    /\ n_env \in Environments
    /\ n_pc = "token"
    /\ n_token = FALSE /\ n_project = Absent /\ n_from = NoFromEnv
    /\ n_account = NoServiceAccount
    /\ n_result = Pending /\ n_client = NoClient

\* token: gouth::Builder::new().scopes(..).build()?
NewToken ==
    /\ n_pc = "token"
    /\ LET b == Builder_build(n_env) IN
       IF b.ok
       THEN n_token' = TRUE /\ n_pc' = "project" /\ UNCHANGED n_result
       ELSE n_pc' = "done" /\ n_result' = Err(b.kind) /\ UNCHANGED n_token
    /\ UNCHANGED <<n_env, n_project, n_from, n_account, n_client>>
    /\ UNCHANGED NotNew

\* project_id: project_id()?
NewProjectId ==
    /\ n_pc = "project"
    /\ LET id == project_id(n_env) IN
       IF id.ok
       THEN n_project' = id.id /\ n_pc' = "account" /\ UNCHANGED n_result
       ELSE n_pc' = "done" /\ n_result' = Err("Other") /\ UNCHANGED n_project
    /\ UNCHANGED <<n_env, n_token, n_from, n_account, n_client>>
    /\ UNCHANGED NotNew

\* service_account: ServiceAccount::from_env().ok(), and, when from_env
\* returns, the rest of Client::new: Ok(Client { .. })
NewServiceAccount ==
    /\ n_pc = "account"
    /\ LET r == from_env(n_env) IN
       /\ n_from' = r
       /\ IF r.tag = "Panic"
          THEN n_pc' = "panicked" /\ UNCHANGED <<n_account, n_result, n_client>>
          ELSE /\ n_account' = Result_ok(r)
               /\ n_client' = [built |-> TRUE, project_id |-> n_project,
                               service_account |-> n_account']
               /\ n_result' = Ok(Unit)
               /\ n_pc' = "done"
    /\ UNCHANGED <<n_env, n_token, n_project>>
    /\ UNCHANGED NotNew

NextNew == NewToken \/ NewProjectId \/ NewServiceAccount

SpecNew == InitNew /\ [][NextNew]_vars

\* Client::new has returned or panicked
NewEnded == n_pc \in {"done", "panicked"}

\* C14: Client::new returns a configuration error, and no Client, when no
\* credential source is resolvable; it returns an error, and no Client,
\* when the token setup or the resolution of the project id fails; it
\* returns a Client only when a token source and a project id were resolved.
C14_NewNeedsTokenAndProject ==
    /\ n_env.credential = "none" =>
          /\ n_client = NoClient
          /\ NewEnded => (n_pc = "done" /\ n_result = Err("Configuration"))
    /\ (\/ n_env.credential = "none"
        \/ n_env.setup = "fails"
        \/ (n_env.GOOGLE_CLOUD_PROJECT \in {Unset, NotUnicode} /\ n_env.gcloud = "fails"
               /\ n_env.gcemeta = "fails")) =>
          /\ n_client = NoClient
          /\ NewEnded => (n_pc = "done" /\ n_result.tag = "Err")
    /\ (n_client # NoClient \/ n_result.tag = "Ok") =>
          /\ n_pc = "done" /\ n_result = Ok(Unit) /\ n_client.built
          /\ n_token /\ n_env.credential # "none" /\ n_env.setup = "ok"
          /\ n_client.project_id \in {n_env.GOOGLE_CLOUD_PROJECT, n_env.gcloud, n_env.gcemeta}
          /\ n_client.project_id \notin {Unset, NotUnicode, "fails", Absent, ""}

\* nothing gives a credential, the project id and the service account file
\* are there, and Client::new has returned the configuration error
C14_Witness ==
    /\ n_pc = "done" /\ n_env.credential = "none" /\ ~n_token
    /\ n_env.GOOGLE_CLOUD_PROJECT = "p-env" /\ n_env.SERVICE_ACCOUNT = "ok"
    /\ n_result = Err("Configuration") /\ n_client = NoClient

\* std::env::var gives no value for the variable
NoValueOf(v) == v \in {Unset, NotUnicode}

\* C27 as stated: from_env uses GOOGLE_APPLICATION_CREDENTIALS only when
\* SERVICE_ACCOUNT is unset, returns Err only when both variables are unset,
\* returns only accounts of type "service_account"; a Client made by
\* Client::new has no service account exactly when both are unset.
C27_ErrOnlyWhenBothUnset ==
    n_from # NoFromEnv =>
        /\ n_from.var = "GOOGLE_APPLICATION_CREDENTIALS" => n_env.SERVICE_ACCOUNT = Unset
        /\ n_from.tag = "Err" =>
              (n_env.SERVICE_ACCOUNT = Unset /\ n_env.GOOGLE_APPLICATION_CREDENTIALS = Unset)
        /\ n_from.tag = "Ok" => n_from.account.type = "service_account"
        /\ n_client.built =>
              /\ (n_client.service_account = NoServiceAccount) <=>
                    (n_env.SERVICE_ACCOUNT = Unset
                        /\ n_env.GOOGLE_APPLICATION_CREDENTIALS = Unset)
              /\ n_client.service_account # NoServiceAccount =>
                    n_client.service_account.type = "service_account"

(***************************************************************************)
(* C27 (amended): from_env reads the path from SERVICE_ACCOUNT when        *)
(* std::env::var gives its value, and uses GOOGLE_APPLICATION_CREDENTIALS  *)
(* only when SERVICE_ACCOUNT is unset or not valid Unicode; it returns Err *)
(* exactly when neither variable gives a value; every account it returns   *)
(* has type "service_account"; a Client made by Client::new has no service *)
(* account exactly when neither variable gives a value, and never one of   *)
(* another type.                                                           *)
(***************************************************************************)
C27_ErrOnlyWhenNoValue ==
    n_from # NoFromEnv =>
        /\ ~NoValueOf(n_env.SERVICE_ACCOUNT) => n_from.var = "SERVICE_ACCOUNT"
        /\ n_from.var = "GOOGLE_APPLICATION_CREDENTIALS" =>
              (NoValueOf(n_env.SERVICE_ACCOUNT)
                 /\ ~NoValueOf(n_env.GOOGLE_APPLICATION_CREDENTIALS))
        /\ n_from.tag = "Err" <=>
              (NoValueOf(n_env.SERVICE_ACCOUNT)
                 /\ NoValueOf(n_env.GOOGLE_APPLICATION_CREDENTIALS))
        /\ n_from.tag = "Ok" => n_from.account.type = "service_account"
        /\ n_client.built =>
              /\ (n_client.service_account = NoServiceAccount) <=>
                    (NoValueOf(n_env.SERVICE_ACCOUNT)
                        /\ NoValueOf(n_env.GOOGLE_APPLICATION_CREDENTIALS))
              /\ n_client.service_account # NoServiceAccount =>
                    n_client.service_account.type = "service_account"

\* SERVICE_ACCOUNT is not valid Unicode and the Client holds the account
\* of the file that GOOGLE_APPLICATION_CREDENTIALS names
C27_Witness ==
    /\ n_client.built
    /\ n_env.SERVICE_ACCOUNT = NotUnicode
    /\ n_from.tag = "Ok" /\ n_from.var = "GOOGLE_APPLICATION_CREDENTIALS"
    /\ n_client.service_account = n_from.account
    /\ n_client.service_account.type = "service_account"

(***************************************************************************)
(* Round trips.  One Client, whose get_headers succeeds, calls the         *)
(* operations of one resource one after the other against a service that   *)
(* keeps the entries.  The service acts on the request it receives: verb,  *)
(* url, identifiers in the url and JSON body.                              *)
(***************************************************************************)
SvcRoles == {"READER", "OWNER"}

SvcResources == Resources \cup {"Bucket"}

IsAcl(res) == res \in Resources \ {"HmacKey"}

SvcClient == [project_id |-> "p1", service_account |-> [client_email |-> "sa@example.iam"]]

\* the calls of the round trips: those of a caller, for the entries of
\* bucket b1 (object o1), with either role
SvcAclCalls ==
    {c \in [res : Resources \ {"HmacKey"}, kind : Kinds, bucket : {"b1"},
            object : ObjectNames \cup {NA}, entity : Entities \cup {NA},
            role : SvcRoles \cup {NA}, accessId : {NA}, state : {NA}] :
        /\ (c.object # NA) <=> (c.res = "ObjectAccessControl")
        /\ (c.entity # NA) <=> (c.kind # "list")
        /\ (c.role # NA) <=> (c.kind \in {"create", "update"})}

\* Bucket::create(&NewBucket { name, ..Default::default() }), Bucket::read(name)
SvcBucketCalls ==
    [res : {"Bucket"}, kind : {"create", "read"}, bucket : SvcBuckets, object : {NA},
     entity : {NA}, role : {NA}, accessId : {NA}, state : {NA}]

SvcCalls == SvcAclCalls \cup HmacCalls \cup SvcBucketCalls

\* the ids of the entries of a resource, in the order the service lists them
IdSeq(res) ==
    CASE IsAcl(res) -> <<"allUsers", "allAuthenticatedUsers">>
      [] res = "HmacKey" -> <<"k1">>
      [] res = "Bucket" -> <<"doctest-bucket", "b1">>

IdsOf(res) == {IdSeq(res)[i] : i \in 1..Len(IdSeq(res))}

\* the entry a call is about; HmacKey::create names none (the service
\* chooses the access id), and neither does a list
IdOfCall(c) ==
    CASE c.kind = "list" -> NA
      [] IsAcl(c.res) -> c.entity
      [] c.res = "HmacKey" -> c.accessId
      [] c.res = "Bucket" -> c.bucket

\* the entry a request is about: the identifier in the url, or in the body
\* of a POST
IdOfRequest(res, req) ==
    CASE req.method = "POST" /\ IsAcl(res) -> req.json.entity
      [] req.method = "POST" /\ res = "Bucket" -> req.json.name
      [] req.method = "POST" /\ res = "HmacKey" -> IdSeq(res)[1]
      [] IsAcl(res) -> req.entity
      [] res = "HmacKey" -> req.accessId
      [] res = "Bucket" -> req.bucket

\* the JSON of an entry in a response.  A defaultObjectAcl entry has no
\* bucket member; an HMAC key is answered as metadata, and with its secret
\* when it is created
EntryJson(res, req, id, v) ==
    CASE res \in {"BucketAccessControl", "ObjectAccessControl"} ->
            [NoRec EXCEPT !.shape = "acl", !.bucket = req.bucket, !.entity = id, !.role = v]
      [] res = "DefaultObjectAccessControl" ->
            [NoRec EXCEPT !.shape = "acl", !.entity = id, !.role = v]
      [] res = "HmacKey" /\ req.method = "POST" ->
            [NoRec EXCEPT !.shape = "hmacKey", !.accessId = id, !.state = v,
                          !.secret = "s3cr3t"]
      [] res = "HmacKey" ->
            [NoRec EXCEPT !.shape = "hmacMeta", !.accessId = id, !.state = v]
      [] res = "Bucket" ->
            [NoRec EXCEPT !.shape = "bucket", !.name = id]

ObjectBody(r) == [json |-> "object", error |-> NoError, items |-> NoItems, res |-> r]

ErrorBody(code, message) ==
    [json |-> "object",
     error |-> [present |-> TRUE, valid |-> TRUE,
                detail |-> [code |-> code, message |-> message, errors |-> <<>>]],
     items |-> NoItems, res |-> NoRec]

\* the body of a list: the entries held, and no "items" member when there
\* are none
ListBody(res, req, store) ==
    LET Held(id) == store[id] # NA
        ids == SelectSeq(IdSeq(res), Held) IN
    [json |-> "object", error |-> NoError,
     items |-> IF ids = <<>> THEN NoItems
               ELSE [present |-> TRUE,
                     list |-> [i \in 1..Len(ids) |-> EntryJson(res, req, ids[i], store[ids[i]])]],
     res |-> NoRec]

Answer(store, status, body) == [store |-> store, response |-> [status |-> status, body |-> body]]

\* the value the service holds for the entry of a POST or PUT
ValueOfRequest(res, req) ==
    CASE IsAcl(res) -> req.json.role
      [] res = "HmacKey" -> IF req.method = "POST" THEN "ACTIVE" ELSE req.json.state
      [] res = "Bucket" -> "exists"

\* The service.  POST inserts (an acl entry is replaced when it exists; a
\* bucket or an access id that exists is a conflict), GET reads or lists,
\* PUT replaces (an acl entry that does not exist is inserted when upsert,
\* else not found), DELETE removes and answers 204 with no body; a key
\* that is ACTIVE is not deleted.
Serve(res, store, req, upsert) ==
    LET id == IdOfRequest(res, req)
        v == ValueOfRequest(res, req)
        held == store[id] # NA
        put == [store EXCEPT ![id] = v]
        NotFound == Answer(store, 404, ErrorBody(404, "Not Found")) IN
    CASE req.method = "POST" ->
            IF held /\ ~IsAcl(res) THEN Answer(store, 409, ErrorBody(409, "Conflict"))
            ELSE Answer(put, 200, ObjectBody(EntryJson(res, req, id, v)))
      [] req.method = "GET" /\ req.url = UrlTemplate([res |-> res, kind |-> "list"]) ->
            Answer(store, 200, ListBody(res, req, store))
      [] req.method = "GET" ->
            IF held THEN Answer(store, 200, ObjectBody(EntryJson(res, req, id, store[id])))
            ELSE NotFound
      [] req.method = "PUT" ->
            IF held \/ (IsAcl(res) /\ upsert)
            THEN Answer(put, 200, ObjectBody(EntryJson(res, req, id, v)))
            ELSE NotFound
      [] req.method = "DELETE" ->
            IF ~held THEN NotFound
            ELSE IF res = "HmacKey" /\ store[id] = "ACTIVE"
            THEN Answer(store, 400, ErrorBody(400, "Cannot delete keys in ACTIVE state"))
            ELSE Answer([store EXCEPT ![id] = NA], 204, EmptyBody)

\* everything but the state of the round trips
NotSvc == <<cvars, uvars, tvars, nvars, yvars>>

InitSvc ==
    /\ COff /\ UOff /\ TOff /\ NOff /\ YOff
    /\ s_res \in SvcResources
    /\ s_store = [id \in SvcIds |-> NA]
    /\ s_pc = "idle"
    /\ s_call = NoCall /\ s_request = NoRequest /\ s_before = s_store
    /\ s_response = NoResponse /\ s_result = Pending
    /\ s_last = [id \in SvcIds |-> NoLast] /\ s_lastUpd = [id \in SvcIds |-> NA]
    /\ s_held = NoRec

IsWrite(c) == c.kind \in {"create", "update", "delete"}

\* the entries a call can write
WrittenBy(c) ==
    IF ~IsWrite(c) THEN {}
    ELSE IF c.res = "HmacKey" /\ c.kind = "create" THEN IdsOf(c.res)
    ELSE {IdOfCall(c)}

\* an operation is called and builds its request
SCall(c) ==
    /\ s_pc \in {"idle", "done"}
    /\ c.res = s_res
    /\ s_call' = c
    /\ s_request' = RequestOf(SvcClient, c, "t1")
    /\ s_before' = s_store
    /\ s_response' = NoResponse /\ s_result' = Pending
    /\ s_last' = [id \in SvcIds |-> IF id \in WrittenBy(c) THEN NoLast ELSE s_last[id]]
    /\ s_pc' = "sent"
    /\ UNCHANGED <<s_res, s_store, s_lastUpd, s_held>>
    /\ UNCHANGED NotSvc

\* .send().await? fails: the request did not reach the service
SSendFails ==
    /\ s_pc = "sent"
    /\ s_result' = Err("Transport")
    /\ s_pc' = "done"
    /\ UNCHANGED <<s_res, s_store, s_call, s_request, s_before, s_response, s_last, s_lastUpd,
                   s_held>>
    /\ UNCHANGED NotSvc

\* the service receives the request, acts on it and answers
SServe(upsert) ==
    /\ s_pc = "sent"
    /\ LET a == Serve(s_res, s_store, s_request, upsert)
           id == IdOfRequest(s_res, s_request)
           applied == a.response.status \in 200..299 IN
       /\ s_store' = a.store
       /\ s_response' = a.response
       /\ s_lastUpd' =
            IF s_res = "HmacKey" /\ applied /\ s_request.method = "PUT"
            THEN [s_lastUpd EXCEPT ![id] = s_request.json.state]
            ELSE IF s_res = "HmacKey" /\ applied /\ s_request.method = "POST"
            THEN [s_lastUpd EXCEPT ![id] = NA]
            ELSE s_lastUpd
    /\ s_pc' = "answered"
    /\ UNCHANGED <<s_res, s_call, s_request, s_before, s_result, s_last, s_held>>
    /\ UNCHANGED NotSvc

\* the operation decodes the answer and returns
SFinish ==
    /\ s_pc = "answered"
    /\ LET r == Finish(s_call, s_response).result
           id == IdOfRequest(s_res, s_request) IN
       /\ s_result' = r
       /\ s_last' =
            IF r.tag = "Ok" /\ s_call.kind \in {"create", "update"}
            THEN [s_last EXCEPT ![id] = [by |-> s_call.kind, rec |-> r.value.one,
                                         arg |-> JsonOf(s_call)]]
            ELSE s_last
       /\ s_held' =
            IF r.tag = "Ok" /\ s_call.kind \in {"create", "read", "update"}
            THEN r.value.one ELSE s_held
    /\ s_pc' = "done"
    /\ UNCHANGED <<s_res, s_store, s_call, s_request, s_before, s_response, s_lastUpd>>
    /\ UNCHANGED NotSvc

NextSvc ==
    \/ \E c \in SvcCalls : SCall(c)
    \/ SSendFails
    \/ \E upsert \in BOOLEAN : SServe(upsert)
    \/ SFinish

SpecSvc == InitSvc /\ [][NextSvc]_vars

\* the call has returned after the service answered it
SvcAnswered == s_pc = "done" /\ s_response.status # 0

\* the call read the entry `id` and the service answered it
ReadOf(id) == SvcAnswered /\ s_call.kind = "read" /\ IdOfCall(s_call) = id

(***************************************************************************)
(* C15: a read of an entry whose last write is an update that returned Ok  *)
(* returns Ok with a record equal to the one the update returned, and with *)
(* the bucket, entity and role (for an HMAC key: the state) the update was *)
(* called with.                                                            *)
(***************************************************************************)
C15_ReadAfterUpdate ==
    \A id \in SvcIds :
        (ReadOf(id) /\ s_last[id].by = "update") =>
            /\ s_result.tag = "Ok"
            /\ s_result.value.one = s_last[id].rec
            /\ IsAcl(s_res) =>
                  /\ s_result.value.one.bucket = s_last[id].arg.bucket
                  /\ s_result.value.one.entity = s_last[id].arg.entity
                  /\ s_result.value.one.role = s_last[id].arg.role
            /\ s_res = "HmacKey" =>
                  /\ s_result.value.one.accessId = id
                  /\ s_result.value.one.state = s_last[id].arg.state

\* a default object acl entry was updated to OWNER and then read
C15_Witness ==
    /\ ReadOf("allUsers")
    /\ s_res = "DefaultObjectAccessControl"
    /\ s_last["allUsers"].by = "update"
    /\ s_last["allUsers"].arg.role = "OWNER"
    /\ s_result.tag = "Ok"

(***************************************************************************)
(* C16: while the last write of an acl entry is a create for entity e with *)
(* role r that returned Ok, a read for e returns Ok with an entry of       *)
(* entity e and role r, and a list returns Ok with such an entry in it.    *)
(***************************************************************************)
C16_ReadAndListAfterCreate ==
    \A e \in Entities :
        (IsAcl(s_res) /\ SvcAnswered /\ s_last[e].by = "create") =>
            /\ ReadOf(e) =>
                  /\ s_result.tag = "Ok"
                  /\ s_result.value.one.entity = e
                  /\ s_result.value.one.role = s_last[e].arg.role
            /\ s_call.kind = "list" =>
                  /\ s_result.tag = "Ok"
                  /\ \E i \in 1..Len(s_result.value.many) :
                        /\ s_result.value.many[i].entity = e
                        /\ s_result.value.many[i].role = s_last[e].arg.role

\* two entries of an object's acl were created and then listed
C16_Witness ==
    /\ s_res = "ObjectAccessControl"
    /\ SvcAnswered /\ s_call.kind = "list"
    /\ \A e \in Entities : s_last[e].by = "create"
    /\ s_last["allAuthenticatedUsers"].arg.role = "OWNER"
    /\ s_result.tag = "Ok" /\ Len(s_result.value.many) = 2

(***************************************************************************)
(* C17: a read of the bucket named n, after a create of a bucket named n   *)
(* that returned Ok, returns Ok with a record whose name is n.             *)
(***************************************************************************)
C17_BucketReadAfterCreate ==
    \A n \in SvcBuckets :
        (s_res = "Bucket" /\ ReadOf(n) /\ s_last[n].by = "create") =>
            /\ s_result.tag = "Ok"
            /\ s_result.value.one.name = n

\* doctest-bucket was created and then read
C17_Witness ==
    /\ s_res = "Bucket"
    /\ ReadOf("doctest-bucket")
    /\ s_last["doctest-bucket"].by = "create"
    /\ s_last["doctest-bucket"].arg.name = "doctest-bucket"
    /\ s_result.tag = "Ok"

\* the service removes the key k in this step
KeyDeleted(k) == s_res = "HmacKey" /\ s_store[k] # NA /\ s_store'[k] = NA

C22_UpdateAddressesCurrentFields ==
    (IsAcl(s_res) /\ s_call.kind = "update" /\ s_pc \in {"sent", "answered", "done"}) =>
        /\ s_request.method = "PUT"
        /\ s_request.url = (IF s_res = "BucketAccessControl" THEN "/b/{}/acl/{}"
                            ELSE IF s_res = "ObjectAccessControl" THEN "/b/{}/o/{}/acl/{}"
                            ELSE "/b/{}/defaultObjectAcl/{}")
        /\ s_request.bucket = s_call.bucket
        /\ s_request.object = s_call.object
        /\ s_request.entity = s_call.entity
        /\ s_request.json = [NoRec EXCEPT !.shape = "acl", !.bucket = s_call.bucket,
                                          !.entity = s_call.entity, !.role = s_call.role]
        /\ (s_pc = "answered" /\ s_held # NoRec /\ s_held.entity # s_call.entity) =>
              /\ IdOfRequest(s_res, s_request) = s_call.entity
              /\ s_store[s_held.entity] = s_before[s_held.entity]
              /\ s_response.status \in 200..299 => s_store[s_call.entity] = s_call.role

\* the entry of allUsers was created as READER; the record was changed to
\* allAuthenticatedUsers and OWNER and updated: the service now holds both
C22_Witness ==
    /\ s_res = "ObjectAccessControl" /\ s_call.kind = "update" /\ s_pc = "answered"
    /\ s_held.entity = "allUsers" /\ s_held.role = "READER"
    /\ s_call.entity = "allAuthenticatedUsers" /\ s_call.role = "OWNER"
    /\ s_before["allAuthenticatedUsers"] = NA
    /\ s_store["allUsers"] = "READER" /\ s_store["allAuthenticatedUsers"] = "OWNER"

(***************************************************************************)
(* C18: when the service applies a delete and answers with a success       *)
(* status and no body, the delete operation of each of the four resources  *)
(* returns Ok(()).                                                         *)
(***************************************************************************)
C18_DeleteReturnsOk ==
    (/\ SvcAnswered
     /\ s_call.kind = "delete"
     /\ s_before[IdOfCall(s_call)] # NA
     /\ s_store[IdOfCall(s_call)] = NA
     /\ s_response.status \in 200..299
     /\ s_response.body = EmptyBody)
    => s_result = Ok(Unit)

(***************************************************************************)
(* Further properties of a single call (specification Spec)                *)
(***************************************************************************)
IsHmac(kinds) == call.res = "HmacKey" /\ call.kind \in kinds

(***************************************************************************)
(* C23: HmacKey::list returns Ok with the empty list whenever reading or   *)
(* decoding the body fails, Err with the detail of the body when the body  *)
(* is an error envelope, and Err when get_headers or send fails.           *)
(***************************************************************************)
C23_ListSwallowsDecodeFailures ==
    /\ (Responded /\ IsHmac({"list"}) /\ GoogleResponse("HmacList", response.body).tag = "None")
          => result = Ok(Many(<<>>))
    /\ (Responded /\ IsHmac({"list"}) /\ HasErrorObject(response.body))
          => result = Google(response.body.error.detail)
    /\ (Returned /\ IsHmac({"list"}) /\ failed \cap {"headers", "send"} # {})
          => (result.tag = "Err" /\ result.kind \in {"Auth", "InvalidHeader", "Transport"})

\* the body of the answer to a list could not be read and the list is Ok and empty
C23_Witness ==
    /\ Responded /\ IsHmac({"list"})
    /\ response.body = UnreadableBody
    /\ result = Ok(Many(<<>>))

(***************************************************************************)
(* C24: DefaultObjectAccessControl::update returns, when it returns Ok, a  *)
(* record whose bucket is the bucket of the record it was called on,       *)
(* whatever the body holds for that member.                                *)
(***************************************************************************)
C24_UpdateKeepsBucket ==
    (Returned /\ IsDefaultAcl({"update"}) /\ result.tag = "Ok") =>
        /\ result.value.one.bucket = call.bucket
        /\ result.value.one.entity = response.body.res.entity
        /\ result.value.one.role = response.body.res.role

\* an update of an entry of b1 was answered with a record that names b2
C24_Witness ==
    /\ Returned /\ IsDefaultAcl({"update"}) /\ result.tag = "Ok"
    /\ call.bucket = "b1" /\ response.body.res.bucket = "b2"

(***************************************************************************)
(* C25: HmacKey::create on a Client without service account returns        *)
(* MissingServiceAccount, having asked for no token and sent no request.   *)
(* On a Client with a service account every request it sends is a POST to  *)
(* the hmacKeys path of the Client's project with the account's            *)
(* client_email as query, and it sends exactly one once it has the token.  *)
(***************************************************************************)
C25_CreateNeedsServiceAccount ==
    /\ (IsHmac({"create"}) /\ client.service_account = NoServiceAccount) =>
          /\ headers = NoHeaders /\ request = NoRequest /\ sent = <<>>
          /\ Returned => result = Err("MissingServiceAccount")
    /\ (IsHmac({"create"}) /\ client.service_account # NoServiceAccount) =>
          /\ \A i \in 1..Len(sent) :
                /\ sent[i].method = "POST"
                /\ sent[i].url = "/projects/{}/hmacKeys"
                /\ sent[i].project = client.project_id
                /\ sent[i].query = client.service_account.client_email
          /\ (Returned /\ headers.ok) => Len(sent) = 1
          /\ Returned => result # Err("MissingServiceAccount")

\* create returned MissingServiceAccount
C25_Witness ==
    /\ Returned /\ IsHmac({"create"})
    /\ client.service_account = NoServiceAccount
    /\ result = Err("MissingServiceAccount")

(***************************************************************************)
(* C26: when get_headers fails in an operation that builds its request     *)
(* with Client::get, post, put or delete, the operation returns that       *)
(* error, and no request was built or sent.                                *)
(***************************************************************************)
C26_NoRequestWithoutToken ==
    (Returned /\ call.res # "BucketAccessControl" /\ ~headers.ok /\ headers # NoHeaders) =>
        /\ headers.kind \in {"Auth", "InvalidHeader"}
        /\ result = Err(headers.kind)
        /\ request = NoRequest
        /\ sent = <<>>
        /\ response = NoResponse

\* DefaultObjectAccessControl::create returned the error of the token
C26_Witness ==
    /\ Returned /\ IsDefaultAcl({"create"})
    /\ result = Err("Auth") /\ sent = <<>>

(***************************************************************************)
(* HmacState on the wire.  #[serde(rename_all = "UPPERCASE")] names each   *)
(* variant by its identifier in upper case; the derived Deserialize takes  *)
(* a string that is the name of a variant, compared byte by byte, and      *)
(* fails on any other.  Strings are sequences of characters.               *)
(***************************************************************************)
HmacStates == {"Active", "Inactive", "Deleted"}

\* the identifier of a variant in the source
Identifier(v) ==
    CASE v = "Active" -> <<"A", "c", "t", "i", "v", "e">>
      [] v = "Inactive" -> <<"I", "n", "a", "c", "t", "i", "v", "e">>
      [] v = "Deleted" -> <<"D", "e", "l", "e", "t", "e", "d">>

LowerCase == <<"a", "c", "d", "e", "i", "l", "n", "t", "v">>
UpperCase == <<"A", "C", "D", "E", "I", "L", "N", "T", "V">>

to_uppercase(ch) ==
    IF \E i \in 1..Len(LowerCase) : LowerCase[i] = ch
    THEN UpperCase[CHOOSE i \in 1..Len(LowerCase) : LowerCase[i] = ch]
    ELSE ch

to_lowercase(ch) ==
    IF \E i \in 1..Len(UpperCase) : UpperCase[i] = ch
    THEN LowerCase[CHOOSE i \in 1..Len(UpperCase) : UpperCase[i] = ch]
    ELSE ch

\* rename_all = "UPPERCASE"
RenameUppercase(name) == [i \in 1..Len(name) |-> to_uppercase(name[i])]

\* Serialize for HmacState: the name of the variant
HmacState_serialize(v) == RenameUppercase(Identifier(v))

\* mutant of HmacState_deserialize: the letter case of the string is ignored
HmacState_deserialize_anycase(w) ==
    IF \E v \in HmacStates : HmacState_serialize(v) = RenameUppercase(w)
    THEN [ok |-> TRUE,
          state |-> CHOOSE v \in HmacStates : HmacState_serialize(v) = RenameUppercase(w)]
    ELSE NoParse

\* Deserialize for HmacState: the variant of that name, or an error
\* (unknown variant)
HmacState_deserialize(w) ==
    IF \E v \in HmacStates : HmacState_serialize(v) = w
    THEN [ok |-> TRUE, state |-> CHOOSE v \in HmacStates : HmacState_serialize(v) = w]
    ELSE NoParse

\* the spellings of a word in every letter case
Spellings(word) ==
    {[i \in 1..Len(word) |-> IF up[i] THEN to_uppercase(word[i]) ELSE to_lowercase(word[i])] :
        up \in [1..Len(word) -> BOOLEAN]}

\* the strings that are parsed: the identifiers in every letter case, and
\* strings that are no state in any case
WireStrings ==
    UNION {Spellings(Identifier(v)) : v \in HmacStates}
    \cup {<<>>, <<"A", "C", "T", "I", "V", "E", " ">>, <<"A", "C", "T", "I", "V">>,
          <<"E", "N", "A", "B", "L", "E", "D">>}

\* everything but the state of the conversion
NotState == <<cvars, uvars, tvars, nvars, svars, dvars, bvars>>

InitState ==
    /\ COff /\ UOff /\ TOff /\ NOff /\ SOff /\ DOff /\ BOff
    /\ h_parsed = NoParse
    /\ \/ h_pc = "state" /\ h_state \in HmacStates /\ h_wire = <<>>
       \/ h_pc = "wire" /\ h_state = NA /\ h_wire \in WireStrings

\* a state is written to a request or a response
Serialize ==
    /\ h_pc = "state"
    /\ h_wire' = HmacState_serialize(h_state)
    /\ h_pc' = "serialized"
    /\ UNCHANGED <<h_state, h_parsed>>
    /\ UNCHANGED NotState

\* a string is read as a state
Deserialize ==
    /\ h_pc \in {"serialized", "wire"}
    /\ h_parsed' = HmacState_deserialize(h_wire)
    /\ h_pc' = "parsed"
    /\ UNCHANGED <<h_state, h_wire>>
    /\ UNCHANGED NotState

NextState == Serialize \/ Deserialize

SpecState == InitState /\ [][NextState]_vars

ACTIVE == <<"A", "C", "T", "I", "V", "E">>
INACTIVE == <<"I", "N", "A", "C", "T", "I", "V", "E">>
DELETED == <<"D", "E", "L", "E", "T", "E", "D">>

(***************************************************************************)
(* C21: a state is serialized as "ACTIVE", "INACTIVE" or "DELETED", and    *)
(* parsing what was serialized gives the state back; those three strings   *)
(* parse to their states, and any other string, such as the same word in   *)
(* another letter case, fails to parse.                                    *)
(***************************************************************************)
C21_HmacStateWire ==
    /\ (h_state # NA /\ h_pc \in {"serialized", "parsed"}) =>
          h_wire = (CASE h_state = "Active" -> ACTIVE
                      [] h_state = "Inactive" -> INACTIVE
                      [] h_state = "Deleted" -> DELETED)
    /\ (h_state # NA /\ h_pc = "parsed") => h_parsed = [ok |-> TRUE, state |-> h_state]
    /\ h_pc = "parsed" =>
          /\ h_wire = ACTIVE => h_parsed = [ok |-> TRUE, state |-> "Active"]
          /\ h_wire = INACTIVE => h_parsed = [ok |-> TRUE, state |-> "Inactive"]
          /\ h_wire = DELETED => h_parsed = [ok |-> TRUE, state |-> "Deleted"]
          /\ h_wire \notin {ACTIVE, INACTIVE, DELETED} => h_parsed = NoParse

\* "Inactive", spelled as the identifier, was parsed and is no state
C21_Witness ==
    /\ h_pc = "parsed"
    /\ h_wire = <<"I", "n", "a", "c", "t", "i", "v", "e">>
    /\ ~h_parsed.ok

(***************************************************************************)
(* Debug.  The text that {:?} gives is kept as the sequence of its pieces: *)
(* the name of the struct, then each field as name, ": " and value, with   *)
(* ", " between the fields.                                                *)
(***************************************************************************)
\* <str as Debug>::fmt: the string in double quotes
DebugStr(s) == <<"\"", s, "\"">>

RECURSIVE DebugFields(_)
DebugFields(fs) ==
    IF fs = <<>> THEN <<>>
    ELSE <<fs[1].name, ": ">> \o fs[1].text
            \o (IF Len(fs) > 1 THEN <<", ">> ELSE <<>>) \o DebugFields(Tail(fs))

\* Formatter::debug_struct(name).field(..) .. .finish()
DebugStruct(name, fs) == <<name, " { ">> \o DebugFields(fs) \o <<" }">>

Field(name, text) == [name |-> name, text |-> text]

\* mutant of ServiceAccount_fmt: every field is printed, as #[derive(Debug)] does
ServiceAccount_fmt_derived(a) ==
    DebugStruct("ServiceAccount",
        <<Field("type", DebugStr(a.type)),
          Field("project_id", DebugStr(a.project_id)),
          Field("private_key_id", DebugStr(a.private_key_id)),
          Field("private_key", DebugStr(a.private_key)),
          Field("client_email", DebugStr(a.client_email)),
          Field("client_id", DebugStr(a.client_id)),
          Field("auth_uri", DebugStr(a.auth_uri)),
          Field("token_uri", DebugStr(a.token_uri)),
          Field("auth_provider_x509_cert_url", DebugStr(a.auth_provider_x509_cert_url)),
          Field("client_x509_cert_url", DebugStr(a.client_x509_cert_url))>>)

\* impl Debug for ServiceAccount
ServiceAccount_fmt(a) ==
    DebugStruct("ServiceAccount",
        <<Field("type", DebugStr(a.type)),
          Field("project_id", DebugStr(a.project_id)),
          Field("private_key_id", DebugStr(a.private_key_id)),
          Field("private_key", DebugStr("...")),
          Field("client_email", DebugStr(a.client_email)),
          Field("client_id", DebugStr(a.client_id)),
          Field("auth_uri", DebugStr(a.auth_uri)),
          Field("token_uri", DebugStr(a.token_uri)),
          Field("auth_provider_x509_cert_url", DebugStr(a.auth_provider_x509_cert_url)),
          Field("client_x509_cert_url", DebugStr(a.client_x509_cert_url))>>)

\* <Option<ServiceAccount> as Debug>::fmt
Option_fmt(o) ==
    IF o.some THEN <<"Some(">> \o ServiceAccount_fmt(o.value) \o <<")">> ELSE <<"None">>

\* impl Debug for Client; the text of the reqwest::Client has no part of
\* the other fields
Client_fmt(c) ==
    DebugStruct("Client",
        <<Field("token", DebugStr("...")),
          Field("project_id", DebugStr(c.project_id)),
          Field("service_account", Option_fmt(c.service_account)),
          Field("client", <<"Client">>)>>)

PrivateKeys == {"key1", "key2"}

\* the service accounts that are formatted
DebugAccounts ==
    [type : {"service_account"}, project_id : {"p1"}, private_key_id : {"id1"},
     private_key : PrivateKeys, client_email : {"sa@example.iam", "sb@example.iam"},
     client_id : {"c1"}, auth_uri : {"auth"}, token_uri : {"token"},
     auth_provider_x509_cert_url : {"certs"}, client_x509_cert_url : {"cert"}]

None == [some |-> FALSE, value |-> CHOOSE a \in DebugAccounts : TRUE]
Some(a) == [some |-> TRUE, value |-> a]

\* the Clients that are formatted
DebugClients ==
    [token : Tokens, project_id : {"p1", "p2"},
     service_account : {None} \cup {Some(a) : a \in DebugAccounts}]

\* everything but the state of the formatting
NotDebug == <<cvars, uvars, tvars, nvars, svars, hvars, bvars>>

InitDebug ==
    /\ COff /\ UOff /\ TOff /\ NOff /\ SOff /\ HOff /\ BOff
    /\ d_text = NoTexts
    /\ \/ d_kind = "Client" /\ d_a \in DebugClients /\ d_b \in DebugClients
       \/ d_kind = "ServiceAccount" /\ d_a \in DebugAccounts /\ d_b \in DebugAccounts

fmt(kind, v) == IF kind = "Client" THEN Client_fmt(v) ELSE ServiceAccount_fmt(v)

\* format!("{:?}", a)
FormatA ==
    /\ d_text.a = <<>>
    /\ d_text' = [d_text EXCEPT !.a = fmt(d_kind, d_a)]
    /\ UNCHANGED <<d_kind, d_a, d_b>>
    /\ UNCHANGED NotDebug

\* format!("{:?}", b)
FormatB ==
    /\ d_text.b = <<>>
    /\ d_text' = [d_text EXCEPT !.b = fmt(d_kind, d_b)]
    /\ UNCHANGED <<d_kind, d_a, d_b>>
    /\ UNCHANGED NotDebug

NextDebug == FormatA \/ FormatB

SpecDebug == InitDebug /\ [][NextDebug]_vars

\* the value without its secrets
Public(kind, v) ==
    IF kind = "Client"
    THEN [v EXCEPT !.token = "t1", !.service_account.value.private_key = "key1"]
    ELSE [v EXCEPT !.private_key = "key1"]

\* the text shows the field with that value
Shows(text, name, value) ==
    \E i \in 1..Len(text) :
        i + 4 <= Len(text) /\ SubSeq(text, i, i + 4) = <<name, ": ", "\"", value, "\"">>

Holds(text, s) == \E i \in 1..Len(text) : text[i] = s

\* both values are formatted
BothFormatted == d_text.a # <<>> /\ d_text.b # <<>>

(***************************************************************************)
(* C28: two Clients that differ only in their token (and in the private    *)
(* key of their service account), and two ServiceAccounts that differ only *)
(* in their private_key, have the same Debug text; the text shows "..."    *)
(* for the token and for the private key, and holds neither.               *)
(***************************************************************************)
C28_DebugHidesSecrets ==
    BothFormatted =>
        /\ Public(d_kind, d_a) = Public(d_kind, d_b) => d_text.a = d_text.b
        /\ d_kind = "Client" =>
              /\ Shows(d_text.a, "token", "...")
              /\ \A t \in Tokens : ~Holds(d_text.a, t)
        /\ (d_kind = "ServiceAccount" \/ d_a.service_account.some) =>
              /\ Shows(d_text.a, "private_key", "...")
              /\ \A k \in PrivateKeys : ~Holds(d_text.a, k)

\* two Clients that differ in their token and in the private key of their
\* service account, and in nothing else, were formatted
C28_Witness ==
    /\ BothFormatted /\ d_kind = "Client"
    /\ d_a.token # d_b.token
    /\ d_a.service_account.some /\ d_b.service_account.some
    /\ d_a.service_account.value.private_key # d_b.service_account.value.private_key
    /\ Public(d_kind, d_a) = Public(d_kind, d_b)
    /\ d_text.a = d_text.b

(***************************************************************************)
(* The test helpers.  Two tests call a helper for the same bucket name at  *)
(* the same time: the same helper, since read_test_bucket takes the name   *)
(* of TEST_BUCKET and create_test_bucket a name made of it and a suffix.   *)
(* Each operation of a helper is a round trip to the service that keeps    *)
(* the buckets.                                                            *)
(***************************************************************************)
Helpers == {"read_test_bucket", "create_test_bucket"}

\* the operation a helper calls first, and the one it calls when that
\* returned Err
FirstOf_(helper) == IF helper = "read_test_bucket" THEN "read" ELSE "create"
FallbackOf(helper) == IF helper = "read_test_bucket" THEN "create" ELSE "read"

\* Bucket::read(&client, &name), Bucket::create(&client, &NewBucket { name, .. })
BucketCall(kind, name) ==
    [res |-> "Bucket", kind |-> kind, bucket |-> name, object |-> NA, entity |-> NA,
     role |-> NA, accessId |-> NA, state |-> NA]

\* the operation a task is in
OperationOf(p) ==
    IF b_pc[p] \in {"start", "first_sent", "first_answered"}
    THEN FirstOf_(b_helper[p]) ELSE FallbackOf(b_helper[p])

\* everything but the state of the helpers
NotHelpers == <<cvars, uvars, tvars, nvars, svars, hvars, dvars>>

InitHelpers ==
    /\ COff /\ UOff /\ TOff /\ NOff /\ SOff /\ HOff /\ DOff
    /\ b_name \in SvcBuckets
    /\ \E before \in {NA, "exists"} :
          b_store = [id \in SvcIds |-> IF id = b_name THEN before ELSE NA]
    /\ b_made = 0
    /\ \E helper \in Helpers : b_helper = [p \in Tasks |-> helper]
    /\ b_pc = [p \in Tasks |-> "start"]
    /\ b_request = [p \in Tasks |-> NoRequest]
    /\ b_response = [p \in Tasks |-> NoResponse]
    /\ b_result = [p \in Tasks |-> Pending]

\* the helper calls its first operation, or the other one after an Err
BCall(p) ==
    /\ b_pc[p] \in {"start", "fallback"}
    /\ b_request' = [b_request EXCEPT
                        ![p] = RequestOf(SvcClient, BucketCall(OperationOf(p), b_name), "t1")]
    /\ b_pc' = [b_pc EXCEPT ![p] = IF b_pc[p] = "start" THEN "first_sent" ELSE "fallback_sent"]
    /\ UNCHANGED <<b_name, b_store, b_made, b_helper, b_response, b_result>>
    /\ UNCHANGED NotHelpers

\* the service receives the request of a task, acts on it and answers
BServe(p) ==
    /\ b_pc[p] \in {"first_sent", "fallback_sent"}
    /\ LET a == Serve("Bucket", b_store, b_request[p], FALSE) IN
       /\ b_store' = a.store
       /\ b_made' = IF b_store[b_name] = NA /\ a.store[b_name] # NA
                    THEN b_made + 1 ELSE b_made
       /\ b_response' = [b_response EXCEPT ![p] = a.response]
    /\ b_pc' = [b_pc EXCEPT ![p] = IF b_pc[p] = "first_sent" THEN "first_answered"
                                   ELSE "fallback_answered"]
    /\ UNCHANGED <<b_name, b_helper, b_request, b_result>>
    /\ UNCHANGED NotHelpers

\* the operation returns: match .. { Ok(bucket) => bucket, Err(_) => <the
\* other operation>.await.unwrap() }
BFinish(p) ==
    /\ b_pc[p] \in {"first_answered", "fallback_answered"}
    /\ LET r == Finish(BucketCall(OperationOf(p), b_name), b_response[p]).result IN
       /\ b_result' = [b_result EXCEPT ![p] = r]
       /\ b_pc' = [b_pc EXCEPT ![p] =
                     IF r.tag = "Ok" THEN "done"
                     ELSE IF b_pc[p] = "first_answered" THEN "fallback"
                     ELSE "panicked"]
    /\ UNCHANGED <<b_name, b_store, b_made, b_helper, b_request, b_response>>
    /\ UNCHANGED NotHelpers

NextHelpers == \E p \in Tasks : BCall(p) \/ BServe(p) \/ BFinish(p)

SpecHelpers == InitHelpers /\ [][NextHelpers]_vars

(***************************************************************************)
(* C29: a helper never fails in its fallback step, whatever the other task *)
(* does; a helper that returns, returns the bucket of the name; and at     *)
(* most one bucket of the name is ever created.                            *)
(***************************************************************************)
C29_HelpersNeverFail ==
    /\ \A p \in Tasks :
          /\ b_pc[p] # "panicked"
          /\ b_pc[p] = "done" =>
                (b_result[p].tag = "Ok" /\ b_result[p].value.one.name = b_name)
    /\ b_made <= 1

====
